---- MODULE Spec2Model ----
(***************************************************************************)
(* Model of contracts/LPStaking.sol (the current revision of the contract, *)
(* lines 188-807 of the file: the two earlier revisions above it in the    *)
(* same file are superseded and are not modelled).                         *)
(*                                                                         *)
(* Conventions.                                                            *)
(*  - A transaction that reverts changes nothing, so it is no step of the  *)
(*    model: a call "fails" exactly when its action is not enabled.        *)
(*  - Every action is one whole external call (one transaction).           *)
(*  - Numbers are scaled so that TLC's integers hold them: PRECISION,      *)
(*    MAX_WEIGHT, MIN_STAKE, MAX_PAIRS, ACTION_EXPIRY and the 128-bit      *)
(*    ceiling stand for the source's 1e18, 1e21, 1e15, 100, 7 days and     *)
(*    2^128-1, and SECONDS_PER_HOUR for 3600 (an "hour" of two ticks), so  *)
(*    that rates, weights and stakes of a few units exercise every branch  *)
(*    and every rounding.  REQUIRED_APPROVALS and the four signers keep    *)
(*    their values.  The code never relates these constants to one         *)
(*    another, so the scaling changes no branch of it.  uint256 overflow   *)
(*    is out of reach of the scaled values and is not modelled.            *)
(*  - pairName / platform strings are only length-checked by the code and  *)
(*    are left out; so are the events and UserStake.lastRewardTime (it is  *)
(*    written by stake and read by no state-changing code).                *)
(*  - The ERC20 tokens are the standard ones of the tests (MockERC20):     *)
(*    transfer moves the amount or reverts on insufficient balance;        *)
(*    stakers have approved the contract (test fixture).                   *)
(***************************************************************************)
EXTENDS Integers, Sequences, FiniteSets, TLC

(* ---------------- program constants (LPStaking.sol 200-209) ------------ *)
PRECISION == 100
MAX_WEIGHT == 2
MIN_STAKE == 1
MAX_PAIRS == 2
REQUIRED_APPROVALS == 3
SECONDS_PER_HOUR == 2
ACTION_EXPIRY == 1
UINT128_MAX == 7

(* ---------------- bounds of the model ---------------------------------- *)
\* last block timestamp explored (the first is 1)
MaxTime == 3
\* number of proposals explored by the governance specification
MaxActions == 2
\* number of proposals explored by the staking specification
MaxStakeActions == 3
\* reward tokens held by the contract after deployment (fixture mint)
RewardSupply == 3
\* tokens of every kind each staker starts with (fixture mint)
UserFunds == 2

(* ---------------- principals and tokens -------------------------------- *)
ZERO == "0x0"
THIS == "this"
InitialSigners == <<"s1", "s2", "s3", "s4">>
Users == {"u1", "u2"}
RewardToken == "RT"
Tokens == {"RT", "LP1", "LP2"}
Holders == {THIS, "u1", "u2", "s1", "s2", "s3", "s4"}

Range(f) == {f[i] : i \in DOMAIN f}

VARIABLES
    now,                   \* block.timestamp
    admins,                \* holders of ADMIN_ROLE (AccessControl)
    signers,               \* address[] signers
    actionCounter,
    actions,               \* mapping(uint256 => PendingAction), ids 1..actionCounter
    hourlyRewardRate,
    totalWeight,
    pairs,                 \* mapping(address => LiquidityPair)
    activePairs,           \* address[] activePairs
    rewardPerTokenStored,
    lastUpdateTime,
    userStakes,            \* user => lpToken => UserStake
    balances               \* token => holder => balance (the ERC20 ledgers)

vars == <<now, admins, signers, actionCounter, actions, hourlyRewardRate,
          totalWeight, pairs, activePairs, rewardPerTokenStored,
          lastUpdateTime, userStakes, balances>>

(* ---------------- construction ----------------------------------------- *)
\* struct LiquidityPair of an address never registered (all zero)
NoPair == [lpToken |-> ZERO, weight |-> 0, isActive |-> FALSE]
\* struct UserStake never written (all zero)
NoStake == [amount |-> 0, pendingRewards |-> 0, rewardPerTokenPaid |-> 0]

\* the ERC20 ledgers when the staking contract starts to be used
InitialBalances ==
    [t \in Tokens |->
        [h \in Holders |->
            IF h \in Users THEN UserFunds
            ELSE IF h = THIS /\ t = RewardToken THEN RewardSupply
            ELSE 0]]

Init ==
    /\ now = 1
    /\ admins = Range(InitialSigners)
    /\ signers = InitialSigners
    /\ actionCounter = 0
    /\ actions = <<>>
    /\ hourlyRewardRate = 0
    /\ totalWeight = 0
    /\ pairs = [t \in Tokens |-> NoPair]
    /\ activePairs = <<>>
    /\ rewardPerTokenStored = [t \in Tokens |-> 0]
    /\ lastUpdateTime = [t \in Tokens |-> 0]
    /\ userStakes = [u \in Users |-> [t \in Tokens |-> NoStake]]
    /\ balances = InitialBalances

(* ---------------- the clock -------------------------------------------- *)
\* a later block: block.timestamp only grows
Tick ==
    /\ now < MaxTime
    /\ now' = now + 1
    /\ UNCHANGED <<admins, signers, actionCounter, actions, hourlyRewardRate,
                   totalWeight, pairs, activePairs, rewardPerTokenStored,
                   lastUpdateTime, userStakes, balances>>

(* ---------------- ERC20 ------------------------------------------------ *)
balanceOf(bal, t, h) == bal[t][h]

\* the ledgers after moving amount of token t from -> to (caller checks funds)
transferred(bal, t, from, to, amount) ==
    IF from = to THEN bal
    ELSE [bal EXCEPT ![t][from] = @ - amount, ![t][to] = @ + amount]

(* ---------------- multisig: proposals ---------------------------------- *)
\* a PendingAction as Solidity leaves fresh storage: every field zero
BlankAction ==
    [actionType |-> "SET_HOURLY_REWARD_RATE", newHourlyRewardRate |-> 0,
     pairs |-> <<>>, weights |-> <<>>, pairToAdd |-> ZERO, weightToAdd |-> 0,
     pairToRemove |-> ZERO, recipient |-> ZERO, withdrawAmount |-> 0,
     executed |-> FALSE, expired |-> FALSE, approvals |-> 0,
     approvedBy |-> <<>>, proposedTime |-> 0]

\* isActionExpired, on the action record
isActionExpired(pa) == now > pa.proposedTime + ACTION_EXPIRY

\* mutant: the "Already approved" loop is missing
canApproveTwice(pa, sender) ==
    /\ ~pa.executed
    /\ ~pa.expired
    /\ now <= pa.proposedTime + ACTION_EXPIRY

\* mutant: only the expired flag is consulted, not the timestamp
canApproveAfterExpiry(pa, sender) ==
    /\ ~pa.executed
    /\ ~pa.expired
    /\ \A i \in 1..Len(pa.approvedBy) : pa.approvedBy[i] # sender

\* the require statements of _approveActionInternal
canApprove(pa, sender) ==
    /\ ~pa.executed
    /\ ~pa.expired
    /\ now <= pa.proposedTime + ACTION_EXPIRY
    /\ \A i \in 1..Len(pa.approvedBy) : pa.approvedBy[i] # sender

\* the writes of _approveActionInternal
approved(pa, sender) ==
    [pa EXCEPT !.approvedBy = Append(@, sender), !.approvals = @ + 1]

\* mutant: the proposer's own approval is not recorded
proposedUnapproved(sender, pa) ==
    /\ sender \in admins
    /\ canApprove(pa, sender)
    /\ actionCounter' = actionCounter + 1
    /\ actions' = Append(actions, pa)
    /\ UNCHANGED <<now, admins, signers, hourlyRewardRate, totalWeight, pairs,
                   activePairs, rewardPerTokenStored, lastUpdateTime,
                   userStakes, balances>>

\* common tail of every propose*: actionCounter++, store, approve as proposer
proposed(sender, pa) ==
    /\ sender \in admins
    /\ canApprove(pa, sender)
    /\ actionCounter' = actionCounter + 1
    /\ actions' = Append(actions, approved(pa, sender))
    /\ UNCHANGED <<now, admins, signers, hourlyRewardRate, totalWeight, pairs,
                   activePairs, rewardPerTokenStored, lastUpdateTime,
                   userStakes, balances>>

proposeWithdrawRewards(sender, recipient, amount) ==
    /\ recipient # ZERO
    /\ amount > 0
    /\ amount <= balanceOf(balances, RewardToken, THIS)
    /\ amount <= UINT128_MAX
    /\ proposed(sender, [BlankAction EXCEPT !.actionType = "WITHDRAW_REWARDS",
                            !.recipient = recipient, !.withdrawAmount = amount,
                            !.proposedTime = now])

proposeSetHourlyRewardRate(sender, newRate) ==
    /\ newRate <= UINT128_MAX
    /\ proposed(sender, [BlankAction EXCEPT
                            !.actionType = "SET_HOURLY_REWARD_RATE",
                            !.newHourlyRewardRate = newRate,
                            !.proposedTime = now])

proposeUpdatePairWeights(sender, lpTokens, weights) ==
    /\ Len(lpTokens) = Len(weights)
    /\ Len(lpTokens) > 0
    /\ Len(lpTokens) <= MAX_PAIRS
    /\ \A i \in 1..Len(weights) : weights[i] <= MAX_WEIGHT /\ lpTokens[i] # ZERO
    /\ proposed(sender, [BlankAction EXCEPT
                            !.actionType = "UPDATE_PAIR_WEIGHTS",
                            !.pairs = lpTokens, !.weights = weights,
                            !.proposedTime = now])

proposeAddPair(sender, lpToken, weight) ==
    /\ lpToken # ZERO
    /\ weight > 0
    /\ weight <= MAX_WEIGHT
    /\ proposed(sender, [BlankAction EXCEPT !.actionType = "ADD_PAIR",
                            !.pairToAdd = lpToken, !.weightToAdd = weight,
                            !.proposedTime = now])

proposeRemovePair(sender, lpToken) ==
    /\ lpToken # ZERO
    /\ pairs[lpToken].isActive
    /\ proposed(sender, [BlankAction EXCEPT !.actionType = "REMOVE_PAIR",
                            !.pairToRemove = lpToken, !.proposedTime = now])

proposeChangeSigner(sender, oldSigner, newSigner) ==
    /\ oldSigner \in admins
    /\ newSigner \notin admins
    /\ newSigner # ZERO
    /\ proposed(sender, [BlankAction EXCEPT !.actionType = "CHANGE_SIGNER",
                            !.pairToAdd = oldSigner, !.pairToRemove = newSigner,
                            !.proposedTime = now])

approveAction(sender, actionId) ==
    /\ sender \in admins
    /\ actionId > 0 /\ actionId <= actionCounter
    /\ canApprove(actions[actionId], sender)
    /\ actions' = [actions EXCEPT ![actionId] = approved(@, sender)]
    /\ UNCHANGED <<now, admins, signers, actionCounter, hourlyRewardRate,
                   totalWeight, pairs, activePairs, rewardPerTokenStored,
                   lastUpdateTime, userStakes, balances>>

(* ---------------- multisig: expiry marking ----------------------------- *)
\* mutant: an executed action can still be flagged expired
handleExpiredActionOfExecuted(sender, actionId) ==
    /\ sender \in admins
    /\ actionId > 0 /\ actionId <= actionCounter
    /\ ~actions[actionId].expired
    /\ isActionExpired(actions[actionId])
    /\ actions' = [actions EXCEPT ![actionId].expired = TRUE]
    /\ UNCHANGED <<now, admins, signers, actionCounter, hourlyRewardRate,
                   totalWeight, pairs, activePairs, rewardPerTokenStored,
                   lastUpdateTime, userStakes, balances>>

handleExpiredAction(sender, actionId) ==
    /\ sender \in admins
    /\ actionId > 0 /\ actionId <= actionCounter
    /\ ~actions[actionId].executed
    /\ ~actions[actionId].expired
    /\ isActionExpired(actions[actionId])
    /\ actions' = [actions EXCEPT ![actionId].expired = TRUE]
    /\ UNCHANGED <<now, admins, signers, actionCounter, hourlyRewardRate,
                   totalWeight, pairs, activePairs, rewardPerTokenStored,
                   lastUpdateTime, userStakes, balances>>

\* mutant: the sweep does not look at the clock
cleanupExpiredActionsEarly(sender) ==
    /\ sender \in admins
    /\ actions' = [i \in 1..actionCounter |->
                      IF ~actions[i].executed /\ ~actions[i].expired
                      THEN [actions[i] EXCEPT !.expired = TRUE]
                      ELSE actions[i]]
    /\ UNCHANGED <<now, admins, signers, actionCounter, hourlyRewardRate,
                   totalWeight, pairs, activePairs, rewardPerTokenStored,
                   lastUpdateTime, userStakes, balances>>

cleanupExpiredActions(sender) ==
    /\ sender \in admins
    /\ actions' = [i \in 1..actionCounter |->
                      IF ~actions[i].executed /\ ~actions[i].expired
                            /\ isActionExpired(actions[i])
                      THEN [actions[i] EXCEPT !.expired = TRUE]
                      ELSE actions[i]]
    /\ UNCHANGED <<now, admins, signers, actionCounter, hourlyRewardRate,
                   totalWeight, pairs, activePairs, rewardPerTokenStored,
                   lastUpdateTime, userStakes, balances>>

(* ---------------- reward index ----------------------------------------- *)
\* mutant: the pool's share of the total weight is left out
pairRewardsUnweighted(timeDelta, weight) ==
    (hourlyRewardRate \div SECONDS_PER_HOUR) * timeDelta

\* (rewardPerSecond * timeDelta * weight) / totalWeight, lines 439-440, 453-454
pairRewards(timeDelta, weight) ==
    (((hourlyRewardRate \div SECONDS_PER_HOUR) * timeDelta) * weight)
        \div totalWeight

\* updateRewardPerToken divides by totalWeight = 0: the call reverts
updateReverts(lpToken) ==
    /\ balanceOf(balances, lpToken, THIS) > 0
    /\ now - lastUpdateTime[lpToken] > 0
    /\ totalWeight = 0

\* mutant: the index is overwritten with the increment, not increased by it
updatedRewardPerTokenOverwritten(lpToken) ==
    LET totalSupply == balanceOf(balances, lpToken, THIS)
        timeDelta == now - lastUpdateTime[lpToken]
    IN  IF totalSupply > 0 /\ timeDelta > 0
        THEN (pairRewards(timeDelta, pairs[lpToken].weight) * PRECISION)
                    \div totalSupply
        ELSE rewardPerTokenStored[lpToken]

\* rewardPerTokenStored[lpToken] as updateRewardPerToken leaves it
updatedRewardPerToken(lpToken) ==
    LET totalSupply == balanceOf(balances, lpToken, THIS)
        timeDelta == now - lastUpdateTime[lpToken]
    IN  IF totalSupply > 0 /\ timeDelta > 0
        THEN rewardPerTokenStored[lpToken]
               + (pairRewards(timeDelta, pairs[lpToken].weight) * PRECISION)
                    \div totalSupply
        ELSE rewardPerTokenStored[lpToken]

\* mutant: the view forgets the accrual since the last update
currentRewardPerTokenStale(lpToken, rpts, lut) == rpts

\* currentRewardPerToken of earned(), for a pool whose stored index is rpts
\* and whose last update was at lut
currentRewardPerToken(lpToken, rpts, lut) ==
    IF now > lut /\ balanceOf(balances, lpToken, THIS) > 0
    THEN rpts + (pairRewards(now - lut, pairs[lpToken].weight) * PRECISION)
                   \div balanceOf(balances, lpToken, THIS)
    ELSE rpts

\* earned() reverts: division by totalWeight = 0, or the subtraction underflows
earnedRevertsOn(us, lpToken, rpts, lut) ==
    \/ now > lut /\ balanceOf(balances, lpToken, THIS) > 0 /\ totalWeight = 0
    \/ currentRewardPerToken(lpToken, rpts, lut) < us.rewardPerTokenPaid

\* the value of earned() for stake record us
earnedOn(us, lpToken, rpts, lut) ==
    (us.amount * (currentRewardPerToken(lpToken, rpts, lut)
                    - us.rewardPerTokenPaid)) \div PRECISION
        + us.pendingRewards

\* earned(user, lpToken) as an external view call in the current state
earnedReverts(user, lpToken) ==
    earnedRevertsOn(userStakes[user][lpToken], lpToken,
                    rewardPerTokenStored[lpToken], lastUpdateTime[lpToken])

earned(user, lpToken) ==
    earnedOn(userStakes[user][lpToken], lpToken,
             rewardPerTokenStored[lpToken], lastUpdateTime[lpToken])

\* earned(msg.sender, lpToken) called right after updateRewardPerToken(lpToken)
\* inside stake / unstake / claimRewards
earnedAfterUpdate(user, lpToken) ==
    earnedOn(userStakes[user][lpToken], lpToken,
             updatedRewardPerToken(lpToken), now)

earnedAfterUpdateReverts(user, lpToken) ==
    earnedRevertsOn(userStakes[user][lpToken], lpToken,
                    updatedRewardPerToken(lpToken), now)

\* updateAllRewards reverts if any active pool's update does
updateAllReverts == \E i \in 1..Len(activePairs) : updateReverts(activePairs[i])

\* the two mappings as updateAllRewards leaves them
allUpdatedRewardPerToken ==
    [t \in Tokens |-> IF t \in Range(activePairs) THEN updatedRewardPerToken(t)
                      ELSE rewardPerTokenStored[t]]

allUpdatedLastUpdateTime ==
    [t \in Tokens |-> IF t \in Range(activePairs) THEN now
                      ELSE lastUpdateTime[t]]

(* ---------------- multisig: execution ---------------------------------- *)
\* the first loop of UPDATE_PAIR_WEIGHTS: pairs[pa.pairs[i]].weight = pa.weights[i]
RECURSIVE weightsApplied(_, _, _, _)
weightsApplied(ps, lpTokens, weights, i) ==
    IF i > Len(lpTokens) THEN ps
    ELSE weightsApplied([ps EXCEPT ![lpTokens[i]].weight = weights[i]],
                        lpTokens, weights, i + 1)

\* mutant: the sum is taken over every registered pool, active or not
registeredWeight(ps, active, j) ==
    ps["RT"].weight + ps["LP1"].weight + ps["LP2"].weight

\* the second loop: the sum of pairs[activePairs[j]].weight from j on
RECURSIVE activeWeight(_, _, _)
activeWeight(ps, active, j) ==
    IF j > Len(active) THEN 0
    ELSE ps[active[j]].weight + activeWeight(ps, active, j + 1)

\* mutant: the last entry is popped without the swap
removedLastPair(active, lpToken) ==
    IF \E i \in 1..Len(active) : active[i] = lpToken
    THEN SubSeq(active, 1, Len(active) - 1)
    ELSE active

\* _removeActivePair: swap the first match with the last entry and pop
removedActivePair(active, lpToken) ==
    IF \E i \in 1..Len(active) : active[i] = lpToken
    THEN LET i == CHOOSE k \in 1..Len(active) :
                      /\ active[k] = lpToken
                      /\ \A m \in 1..(k - 1) : active[m] # lpToken
         IN  SubSeq([active EXCEPT ![i] = active[Len(active)]],
                    1, Len(active) - 1)
    ELSE active

\* the signers array after the CHANGE_SIGNER loop (first match replaced)
signerReplaced(ss, oldSigner, newSigner) ==
    IF \E i \in 1..Len(ss) : ss[i] = oldSigner
    THEN LET i == CHOOSE k \in 1..Len(ss) :
                      /\ ss[k] = oldSigner
                      /\ \A m \in 1..(k - 1) : ss[m] # oldSigner
         IN  [ss EXCEPT ![i] = newSigner]
    ELSE ss

\* mutant: the rate is changed without synchronizing the pools first
execSetHourlyRewardRateNoSync(pa) ==
    /\ hourlyRewardRate' = pa.newHourlyRewardRate
    /\ UNCHANGED <<admins, signers, totalWeight, pairs, activePairs,
                   rewardPerTokenStored, lastUpdateTime, userStakes, balances>>

execSetHourlyRewardRate(pa) ==
    /\ ~updateAllReverts
    /\ rewardPerTokenStored' = allUpdatedRewardPerToken
    /\ lastUpdateTime' = allUpdatedLastUpdateTime
    /\ hourlyRewardRate' = pa.newHourlyRewardRate
    /\ UNCHANGED <<admins, signers, totalWeight, pairs, activePairs,
                   userStakes, balances>>

\* mutant: the weights are changed without synchronizing the pools first
execUpdatePairWeightsNoSync(pa) ==
    /\ \A i \in 1..Len(pa.pairs) : pairs[pa.pairs[i]].lpToken # ZERO
    /\ pairs' = weightsApplied(pairs, pa.pairs, pa.weights, 1)
    /\ totalWeight' = activeWeight(pairs', activePairs, 1)
    /\ UNCHANGED <<admins, signers, hourlyRewardRate, activePairs,
                   rewardPerTokenStored, lastUpdateTime, userStakes, balances>>

\* mutant: a pool of the batch that is not registered is skipped and the
\* rest of the batch applied (the call does not fail)
execUpdatePairWeightsSkipping(pa) ==
    /\ ~updateAllReverts
    /\ rewardPerTokenStored' = allUpdatedRewardPerToken
    /\ lastUpdateTime' = allUpdatedLastUpdateTime
    /\ pairs' = [t \in Tokens |->
                    IF pairs[t].lpToken # ZERO
                    THEN weightsApplied(pairs, pa.pairs, pa.weights, 1)[t]
                    ELSE pairs[t]]
    /\ totalWeight' = activeWeight(pairs', activePairs, 1)
    /\ UNCHANGED <<admins, signers, hourlyRewardRate, activePairs,
                   userStakes, balances>>

execUpdatePairWeights(pa) ==
    /\ ~updateAllReverts
    /\ rewardPerTokenStored' = allUpdatedRewardPerToken
    /\ lastUpdateTime' = allUpdatedLastUpdateTime
    /\ \A i \in 1..Len(pa.pairs) : pairs[pa.pairs[i]].lpToken # ZERO
    /\ pairs' = weightsApplied(pairs, pa.pairs, pa.weights, 1)
    /\ totalWeight' = activeWeight(pairs', activePairs, 1)
    /\ UNCHANGED <<admins, signers, hourlyRewardRate, activePairs,
                   userStakes, balances>>

\* mutant: the MAX_PAIRS check is missing
execAddPairUnbounded(pa) ==
    /\ pairs[pa.pairToAdd].lpToken = ZERO
    /\ pa.weightToAdd <= MAX_WEIGHT
    /\ pairs' = [pairs EXCEPT ![pa.pairToAdd] =
                    [lpToken |-> pa.pairToAdd, weight |-> pa.weightToAdd,
                     isActive |-> TRUE]]
    /\ activePairs' = Append(activePairs, pa.pairToAdd)
    /\ totalWeight' = totalWeight + pa.weightToAdd
    /\ lastUpdateTime' = [lastUpdateTime EXCEPT ![pa.pairToAdd] = now]
    /\ UNCHANGED <<admins, signers, hourlyRewardRate, rewardPerTokenStored,
                   userStakes, balances>>

execAddPair(pa) ==
    /\ pairs[pa.pairToAdd].lpToken = ZERO
    /\ Len(activePairs) < MAX_PAIRS
    /\ pa.weightToAdd <= MAX_WEIGHT
    /\ pairs' = [pairs EXCEPT ![pa.pairToAdd] =
                    [lpToken |-> pa.pairToAdd, weight |-> pa.weightToAdd,
                     isActive |-> TRUE]]
    /\ activePairs' = Append(activePairs, pa.pairToAdd)
    /\ totalWeight' = totalWeight + pa.weightToAdd
    /\ lastUpdateTime' = [lastUpdateTime EXCEPT ![pa.pairToAdd] = now]
    /\ UNCHANGED <<admins, signers, hourlyRewardRate, rewardPerTokenStored,
                   userStakes, balances>>

execRemovePair(pa) ==
    /\ pairs[pa.pairToRemove].isActive
    /\ totalWeight >= pairs[pa.pairToRemove].weight
    /\ totalWeight' = totalWeight - pairs[pa.pairToRemove].weight
    /\ pairs' = [pairs EXCEPT ![pa.pairToRemove].isActive = FALSE,
                              ![pa.pairToRemove].weight = 0]
    /\ activePairs' = removedActivePair(activePairs, pa.pairToRemove)
    /\ UNCHANGED <<admins, signers, hourlyRewardRate, rewardPerTokenStored,
                   lastUpdateTime, userStakes, balances>>

\* mutant: the new signer is granted the role, the old one keeps it
execChangeSignerKeepsOld(pa) ==
    /\ admins' = admins \cup {pa.pairToRemove}
    /\ signers' = signerReplaced(signers, pa.pairToAdd, pa.pairToRemove)
    /\ UNCHANGED <<hourlyRewardRate, totalWeight, pairs, activePairs,
                   rewardPerTokenStored, lastUpdateTime, userStakes, balances>>

execChangeSigner(pa) ==
    /\ admins' = (admins \ {pa.pairToAdd}) \cup {pa.pairToRemove}
    /\ signers' = signerReplaced(signers, pa.pairToAdd, pa.pairToRemove)
    /\ UNCHANGED <<hourlyRewardRate, totalWeight, pairs, activePairs,
                   rewardPerTokenStored, lastUpdateTime, userStakes, balances>>

execWithdrawRewards(pa) ==
    /\ pa.recipient # ZERO
    /\ balanceOf(balances, RewardToken, THIS) >= pa.withdrawAmount
    /\ balances' = transferred(balances, RewardToken, THIS, pa.recipient,
                               pa.withdrawAmount)
    /\ UNCHANGED <<admins, signers, hourlyRewardRate, totalWeight, pairs,
                   activePairs, rewardPerTokenStored, lastUpdateTime,
                   userStakes>>

\* the dispatch on pa.actionType, lines 541-621
dispatched(pa) ==
    \/ pa.actionType = "SET_HOURLY_REWARD_RATE" /\ execSetHourlyRewardRate(pa)
    \/ pa.actionType = "UPDATE_PAIR_WEIGHTS" /\ execUpdatePairWeights(pa)
    \/ pa.actionType = "ADD_PAIR" /\ execAddPair(pa)
    \/ pa.actionType = "REMOVE_PAIR" /\ execRemovePair(pa)
    \/ pa.actionType = "CHANGE_SIGNER" /\ execChangeSigner(pa)
    \/ pa.actionType = "WITHDRAW_REWARDS" /\ execWithdrawRewards(pa)

\* mutant: the threshold is off by one
canExecuteOffByOne(pa) ==
    /\ ~pa.executed
    /\ ~pa.expired
    /\ pa.approvals >= REQUIRED_APPROVALS - 1
    /\ now <= pa.proposedTime + ACTION_EXPIRY

\* mutant: the "Already executed" check is missing
canExecuteAgain(pa) ==
    /\ ~pa.expired
    /\ pa.approvals >= REQUIRED_APPROVALS
    /\ now <= pa.proposedTime + ACTION_EXPIRY

\* the require statements of executeAction on the action record, lines 533-539
canExecute(pa) ==
    /\ ~pa.executed
    /\ ~pa.expired
    /\ pa.approvals >= REQUIRED_APPROVALS
    /\ now <= pa.proposedTime + ACTION_EXPIRY

executeAction(sender, actionId) ==
    /\ sender \in admins
    /\ actionId > 0 /\ actionId <= actionCounter
    /\ canExecute(actions[actionId])
    /\ dispatched(actions[actionId])
    /\ actions' = [actions EXCEPT ![actionId].executed = TRUE]
    /\ UNCHANGED <<now, actionCounter>>

(* ---------------- staking ---------------------------------------------- *)
\* mutant: the weight of the pool is not checked
stakeIntoWeightless(sender, lpToken, amount) ==
    /\ pairs[lpToken].isActive
    /\ amount >= MIN_STAKE
    /\ amount <= UINT128_MAX
    /\ ~updateReverts(lpToken)
    /\ userStakes[sender][lpToken].amount > 0
          => ~earnedAfterUpdateReverts(sender, lpToken)
    /\ balanceOf(balances, lpToken, sender) >= amount
    /\ rewardPerTokenStored' =
          [rewardPerTokenStored EXCEPT ![lpToken] = updatedRewardPerToken(lpToken)]
    /\ lastUpdateTime' = [lastUpdateTime EXCEPT ![lpToken] = now]
    /\ userStakes' = [userStakes EXCEPT ![sender][lpToken] =
          [amount |-> @.amount + amount,
           pendingRewards |-> IF @.amount > 0
                              THEN earnedAfterUpdate(sender, lpToken)
                              ELSE @.pendingRewards,
           rewardPerTokenPaid |-> updatedRewardPerToken(lpToken)]]
    /\ balances' = transferred(balances, lpToken, sender, THIS, amount)
    /\ UNCHANGED <<now, admins, signers, actionCounter, actions,
                   hourlyRewardRate, totalWeight, pairs, activePairs>>

\* mutant: the snapshot index of the record is not reset
stakeKeepsSnapshot(sender, lpToken, amount) ==
    /\ pairs[lpToken].isActive
    /\ pairs[lpToken].weight > 0
    /\ amount >= MIN_STAKE
    /\ amount <= UINT128_MAX
    /\ ~updateReverts(lpToken)
    /\ userStakes[sender][lpToken].amount > 0
          => ~earnedAfterUpdateReverts(sender, lpToken)
    /\ balanceOf(balances, lpToken, sender) >= amount
    /\ rewardPerTokenStored' =
          [rewardPerTokenStored EXCEPT ![lpToken] = updatedRewardPerToken(lpToken)]
    /\ lastUpdateTime' = [lastUpdateTime EXCEPT ![lpToken] = now]
    /\ userStakes' = [userStakes EXCEPT ![sender][lpToken] =
          [amount |-> @.amount + amount,
           pendingRewards |-> IF @.amount > 0
                              THEN earnedAfterUpdate(sender, lpToken)
                              ELSE @.pendingRewards,
           rewardPerTokenPaid |-> @.rewardPerTokenPaid]]
    /\ balances' = transferred(balances, lpToken, sender, THIS, amount)
    /\ UNCHANGED <<now, admins, signers, actionCounter, actions,
                   hourlyRewardRate, totalWeight, pairs, activePairs>>

stake(sender, lpToken, amount) ==
    /\ pairs[lpToken].isActive
    /\ pairs[lpToken].weight > 0
    /\ amount >= MIN_STAKE
    /\ amount <= UINT128_MAX
    /\ ~updateReverts(lpToken)
    /\ userStakes[sender][lpToken].amount > 0
          => ~earnedAfterUpdateReverts(sender, lpToken)
    /\ balanceOf(balances, lpToken, sender) >= amount
    /\ rewardPerTokenStored' =
          [rewardPerTokenStored EXCEPT ![lpToken] = updatedRewardPerToken(lpToken)]
    /\ lastUpdateTime' = [lastUpdateTime EXCEPT ![lpToken] = now]
    /\ userStakes' = [userStakes EXCEPT ![sender][lpToken] =
          [amount |-> @.amount + amount,
           pendingRewards |-> IF @.amount > 0
                              THEN earnedAfterUpdate(sender, lpToken)
                              ELSE @.pendingRewards,
           rewardPerTokenPaid |-> updatedRewardPerToken(lpToken)]]
    /\ balances' = transferred(balances, lpToken, sender, THIS, amount)
    /\ UNCHANGED <<now, admins, signers, actionCounter, actions,
                   hourlyRewardRate, totalWeight, pairs, activePairs>>

\* the ledgers after unstake's transfers: the LP tokens, then (full
\* withdrawal only) the rewards
unstakePaid(sender, lpToken, amount, rewards) ==
    LET full == amount = userStakes[sender][lpToken].amount
        afterLp == transferred(balances, lpToken, THIS, sender, amount)
    IN  IF full /\ rewards > 0
        THEN transferred(afterLp, RewardToken, THIS, sender, rewards)
        ELSE afterLp

\* mutant: a partial withdrawal clears the whole recorded amount
unstakeClearsAmount(sender, lpToken, amount) ==
    /\ pairs[lpToken].isActive
    /\ userStakes[sender][lpToken].amount >= amount
    /\ ~updateReverts(lpToken)
    /\ ~earnedAfterUpdateReverts(sender, lpToken)
    /\ LET rewards == earnedAfterUpdate(sender, lpToken)
           full == amount = userStakes[sender][lpToken].amount
           afterLp == transferred(balances, lpToken, THIS, sender, amount)
       IN  /\ balanceOf(balances, lpToken, THIS) >= amount
           /\ (full /\ rewards > 0)
                 => balanceOf(afterLp, RewardToken, THIS) >= rewards
           /\ balances' = unstakePaid(sender, lpToken, amount, rewards)
    /\ rewardPerTokenStored' =
          [rewardPerTokenStored EXCEPT ![lpToken] = updatedRewardPerToken(lpToken)]
    /\ lastUpdateTime' = [lastUpdateTime EXCEPT ![lpToken] = now]
    /\ userStakes' = [userStakes EXCEPT ![sender][lpToken] =
          [amount |-> 0,
           pendingRewards |-> 0,
           rewardPerTokenPaid |-> updatedRewardPerToken(lpToken)]]
    /\ UNCHANGED <<now, admins, signers, actionCounter, actions,
                   hourlyRewardRate, totalWeight, pairs, activePairs>>

unstake(sender, lpToken, amount) ==
    /\ pairs[lpToken].isActive
    /\ userStakes[sender][lpToken].amount >= amount
    /\ ~updateReverts(lpToken)
    /\ ~earnedAfterUpdateReverts(sender, lpToken)
    /\ LET rewards == earnedAfterUpdate(sender, lpToken)
           full == amount = userStakes[sender][lpToken].amount
           afterLp == transferred(balances, lpToken, THIS, sender, amount)
       IN  /\ balanceOf(balances, lpToken, THIS) >= amount
           /\ (full /\ rewards > 0)
                 => balanceOf(afterLp, RewardToken, THIS) >= rewards
           /\ balances' = unstakePaid(sender, lpToken, amount, rewards)
    /\ rewardPerTokenStored' =
          [rewardPerTokenStored EXCEPT ![lpToken] = updatedRewardPerToken(lpToken)]
    /\ lastUpdateTime' = [lastUpdateTime EXCEPT ![lpToken] = now]
    /\ userStakes' = [userStakes EXCEPT ![sender][lpToken] =
          [amount |-> @.amount - amount,
           pendingRewards |-> 0,
           rewardPerTokenPaid |-> updatedRewardPerToken(lpToken)]]
    /\ UNCHANGED <<now, admins, signers, actionCounter, actions,
                   hourlyRewardRate, totalWeight, pairs, activePairs>>

\* the require statements of claimRewards and the success of its transfer
canClaim(sender, lpToken) ==
    /\ pairs[lpToken].isActive
    /\ ~updateReverts(lpToken)
    /\ ~earnedAfterUpdateReverts(sender, lpToken)
    /\ earnedAfterUpdate(sender, lpToken) > 0
    /\ balanceOf(balances, RewardToken, THIS) >= earnedAfterUpdate(sender, lpToken)

\* mutant: the user's index snapshot is not moved to the claimed index
claimRewardsKeepsSnapshot(sender, lpToken) ==
    /\ canClaim(sender, lpToken)
    /\ rewardPerTokenStored' =
          [rewardPerTokenStored EXCEPT ![lpToken] = updatedRewardPerToken(lpToken)]
    /\ lastUpdateTime' = [lastUpdateTime EXCEPT ![lpToken] = now]
    /\ userStakes' = [userStakes EXCEPT ![sender][lpToken].pendingRewards = 0]
    /\ balances' = transferred(balances, RewardToken, THIS, sender,
                               earnedAfterUpdate(sender, lpToken))
    /\ UNCHANGED <<now, admins, signers, actionCounter, actions,
                   hourlyRewardRate, totalWeight, pairs, activePairs>>

\* mutant: an under-funded claim pays what the contract holds and commits
claimRewardsPaysWhatIsThere(sender, lpToken) ==
    /\ pairs[lpToken].isActive
    /\ ~updateReverts(lpToken)
    /\ ~earnedAfterUpdateReverts(sender, lpToken)
    /\ earnedAfterUpdate(sender, lpToken) > 0
    /\ rewardPerTokenStored' =
          [rewardPerTokenStored EXCEPT ![lpToken] = updatedRewardPerToken(lpToken)]
    /\ lastUpdateTime' = [lastUpdateTime EXCEPT ![lpToken] = now]
    /\ userStakes' = [userStakes EXCEPT ![sender][lpToken] =
          [@ EXCEPT !.pendingRewards = 0,
                    !.rewardPerTokenPaid = updatedRewardPerToken(lpToken)]]
    /\ balances' = transferred(balances, RewardToken, THIS, sender,
          IF balanceOf(balances, RewardToken, THIS)
                >= earnedAfterUpdate(sender, lpToken)
          THEN earnedAfterUpdate(sender, lpToken)
          ELSE balanceOf(balances, RewardToken, THIS))
    /\ UNCHANGED <<now, admins, signers, actionCounter, actions,
                   hourlyRewardRate, totalWeight, pairs, activePairs>>

claimRewards(sender, lpToken) ==
    /\ canClaim(sender, lpToken)
    /\ rewardPerTokenStored' =
          [rewardPerTokenStored EXCEPT ![lpToken] = updatedRewardPerToken(lpToken)]
    /\ lastUpdateTime' = [lastUpdateTime EXCEPT ![lpToken] = now]
    /\ userStakes' = [userStakes EXCEPT ![sender][lpToken] =
          [@ EXCEPT !.pendingRewards = 0,
                    !.rewardPerTokenPaid = updatedRewardPerToken(lpToken)]]
    /\ balances' = transferred(balances, RewardToken, THIS, sender,
                               earnedAfterUpdate(sender, lpToken))
    /\ UNCHANGED <<now, admins, signers, actionCounter, actions,
                   hourlyRewardRate, totalWeight, pairs, activePairs>>

(* ---------------- the governance specification ------------------------- *)
\* Two proposals of any of the six kinds, proposed, approved, executed and
\* expired in any interleaving by three signers and an outsider who can be
\* made a signer (the fourth signer, the one being replaced, stays silent).
GovCallers == {"s1", "s2", "s3", "u1"}
ActionIds == 1..MaxActions

ProposeRate ==
    /\ actionCounter < MaxActions
    /\ \E s \in GovCallers : proposeSetHourlyRewardRate(s, 2)

ProposeWeights ==
    /\ actionCounter < MaxActions
    /\ \E s \in GovCallers : proposeUpdatePairWeights(s, <<"LP1">>, <<2>>)

ProposeAdd ==
    /\ actionCounter < MaxActions
    /\ \E s \in GovCallers : proposeAddPair(s, "LP1", 1)

ProposeRemove ==
    /\ actionCounter < MaxActions
    /\ \E s \in GovCallers : proposeRemovePair(s, "LP1")

ProposeSigner ==
    /\ actionCounter < MaxActions
    /\ \E s \in GovCallers : proposeChangeSigner(s, "s4", "u1")

ProposeWithdraw ==
    /\ actionCounter < MaxActions
    /\ \E s \in GovCallers : proposeWithdrawRewards(s, "u2", 1)

Approve == \E s \in GovCallers, id \in ActionIds : approveAction(s, id)

Execute == \E s \in GovCallers, id \in ActionIds : executeAction(s, id)

HandleExpired ==
    \E s \in GovCallers, id \in ActionIds : handleExpiredAction(s, id)

CleanupExpired == \E s \in GovCallers : cleanupExpiredActions(s)

Next ==
    \/ Tick
    \/ ProposeRate
    \/ ProposeWeights
    \/ ProposeAdd
    \/ ProposeRemove
    \/ ProposeSigner
    \/ ProposeWithdraw
    \/ Approve
    \/ Execute
    \/ HandleExpired
    \/ CleanupExpired

Spec == Init /\ [][Next]_vars

(* ---------------- the staking specification ---------------------------- *)
\* The state the tests start from (LPStaking.test.ts 41-58, setupPairAndRate):
\* in the block of the deployment s1 proposed, s2 and s3 approved and s1
\* executed ADD_PAIR("LP1", weight 1) and then SET_HOURLY_REWARD_RATE(2).
\* The governance specification reaches this state from Init (FixtureReached).
FixtureActions ==
    <<[BlankAction EXCEPT !.actionType = "ADD_PAIR", !.pairToAdd = "LP1",
                          !.weightToAdd = 1, !.proposedTime = 1,
                          !.approvals = 3, !.approvedBy = <<"s1", "s2", "s3">>,
                          !.executed = TRUE],
      [BlankAction EXCEPT !.actionType = "SET_HOURLY_REWARD_RATE",
                          !.newHourlyRewardRate = 2, !.proposedTime = 1,
                          !.approvals = 3, !.approvedBy = <<"s1", "s2", "s3">>,
                          !.executed = TRUE]>>

InitStake ==
    /\ now = 1
    /\ admins = Range(InitialSigners)
    /\ signers = InitialSigners
    /\ actionCounter = 2
    /\ actions = FixtureActions
    /\ hourlyRewardRate = 2
    /\ totalWeight = 1
    /\ pairs = [t \in Tokens |->
                  IF t = "LP1"
                  THEN [lpToken |-> "LP1", weight |-> 1, isActive |-> TRUE]
                  ELSE NoPair]
    /\ activePairs = <<"LP1">>
    /\ rewardPerTokenStored = [t \in Tokens |-> 0]
    /\ lastUpdateTime = [t \in Tokens |-> IF t = "LP1" THEN 1 ELSE 0]
    /\ userStakes = [u \in Users |-> [t \in Tokens |-> NoStake]]
    /\ balances = InitialBalances

\* Two stakers stake, unstake and claim while the signers pass further
\* proposals through the multisig as the tests do it (s1 proposes and
\* executes, s2 and s3 approve): a new rate, and the reward token itself as
\* a second pool (proposeAddPair does not exclude it).
StakeTokens == {"LP1", "RT"}
StakeAmounts == {1, 2}

StProposeAdd ==
    /\ actionCounter < MaxStakeActions
    /\ proposeAddPair("s1", "RT", 1)

StProposeRate ==
    /\ actionCounter < MaxStakeActions
    /\ proposeSetHourlyRewardRate("s1", 4)

StApprove ==
    \E s \in {"s2", "s3"}, id \in 1..MaxStakeActions : approveAction(s, id)

StExecute == \E id \in 1..MaxStakeActions : executeAction("s1", id)

Stake == \E u \in Users, t \in StakeTokens, a \in StakeAmounts : stake(u, t, a)

Unstake ==
    \E u \in Users, t \in StakeTokens, a \in StakeAmounts : unstake(u, t, a)

Claim == \E u \in Users, t \in StakeTokens : claimRewards(u, t)

NextStake ==
    \/ Tick
    \/ StProposeAdd
    \/ StProposeRate
    \/ StApprove
    \/ StExecute
    \/ Stake
    \/ Unstake
    \/ Claim

SpecStake == InitStake /\ [][NextStake]_vars

\* the fixture state is a state of the program: checked to be reachable
\* under Spec (its negation is violated)
FixtureReached == InitStake

(* ---------------- the pool specification ------------------------------- *)
\* From the same fixture state, the signers change the set of pools and the
\* weights (s1 proposes and executes, s2 and s3 approve) while u1 stakes in
\* LP1, unstakes and claims.
MaxPoolActions == 4
PoolWeightUpdates ==
    {<<(<<"LP1">>), <<0>>>>, <<(<<"LP1">>), <<2>>>>,
     <<(<<"LP1", "LP2">>), <<2, 1>>>>}

PlProposeWeights ==
    /\ actionCounter < MaxPoolActions
    /\ \E w \in PoolWeightUpdates : proposeUpdatePairWeights("s1", w[1], w[2])

PlProposeAdd ==
    /\ actionCounter < MaxPoolActions
    /\ proposeAddPair("s1", "LP2", 1)

PlProposeRemove ==
    /\ actionCounter < MaxPoolActions
    /\ proposeRemovePair("s1", "LP1")

PlApprove ==
    \E s \in {"s2", "s3"}, id \in 1..MaxPoolActions : approveAction(s, id)

PlExecute == \E id \in 1..MaxPoolActions : executeAction("s1", id)

PlStake == \E a \in StakeAmounts : stake("u1", "LP1", a)

PlUnstake == \E a \in StakeAmounts : unstake("u1", "LP1", a)

PlClaim == claimRewards("u1", "LP1")

NextPools ==
    \/ Tick
    \/ PlProposeWeights
    \/ PlProposeAdd
    \/ PlProposeRemove
    \/ PlApprove
    \/ PlExecute
    \/ PlStake
    \/ PlUnstake
    \/ PlClaim

SpecPools == InitStake /\ [][NextPools]_vars

(* ---------------- the under-funded specification ----------------------- *)
\* The fixture state before anybody has sent reward tokens to the contract
\* (the constructor mints nothing); the two stakers use LP1 while the
\* contract is refilled one reward token at a time (rewardToken.mint to the
\* contract, LPStaking.test.ts 249).
InitShort ==
    /\ now = 1
    /\ admins = Range(InitialSigners)
    /\ signers = InitialSigners
    /\ actionCounter = 2
    /\ actions = FixtureActions
    /\ hourlyRewardRate = 2
    /\ totalWeight = 1
    /\ pairs = [t \in Tokens |->
                  IF t = "LP1"
                  THEN [lpToken |-> "LP1", weight |-> 1, isActive |-> TRUE]
                  ELSE NoPair]
    /\ activePairs = <<"LP1">>
    /\ rewardPerTokenStored = [t \in Tokens |-> 0]
    /\ lastUpdateTime = [t \in Tokens |-> IF t = "LP1" THEN 1 ELSE 0]
    /\ userStakes = [u \in Users |-> [t \in Tokens |-> NoStake]]
    /\ balances = [InitialBalances EXCEPT ![RewardToken][THIS] = 0]

\* MockERC20.mint(to, amount) of the reward token, to the contract
Refill ==
    /\ balanceOf(balances, RewardToken, THIS) < RewardSupply
    /\ balances' = [balances EXCEPT ![RewardToken][THIS] = @ + 1]
    /\ UNCHANGED <<now, admins, signers, actionCounter, actions,
                   hourlyRewardRate, totalWeight, pairs, activePairs,
                   rewardPerTokenStored, lastUpdateTime, userStakes>>

ShStake == \E u \in Users, a \in StakeAmounts : stake(u, "LP1", a)

ShUnstake == \E u \in Users, a \in StakeAmounts : unstake(u, "LP1", a)

ShClaim == \E u \in Users : claimRewards(u, "LP1")

NextShort ==
    \/ Tick
    \/ Refill
    \/ ShStake
    \/ ShUnstake
    \/ ShClaim

SpecShort == InitShort /\ [][NextShort]_vars

(* ---------------- the signer specification ----------------------------- *)
\* From construction, two lasting signers, a signer to be replaced and a
\* newcomer (signer or not at the time of the call) try to propose,
\* approve and execute signer changes, and to flag expired proposals.
MaxSignerActions == 2
OldSigners == {"s3", "s4"}
NewSigners == {"u1", "u2"}
SignerCallers == {"s1", "s2", "s4", "u1"}

SgPropose ==
    /\ actionCounter < MaxSignerActions
    /\ \E s \in SignerCallers, old \in OldSigners, new \in NewSigners :
          proposeChangeSigner(s, old, new)

SgApprove ==
    \E s \in SignerCallers, id \in 1..MaxSignerActions : approveAction(s, id)

SgExecute ==
    \E s \in SignerCallers, id \in 1..MaxSignerActions : executeAction(s, id)

SgHandleExpired ==
    \E s \in SignerCallers, id \in 1..MaxSignerActions :
        handleExpiredAction(s, id)

SgCleanupExpired == \E s \in SignerCallers : cleanupExpiredActions(s)

NextSigners ==
    \/ Tick
    \/ SgPropose
    \/ SgApprove
    \/ SgExecute
    \/ SgHandleExpired
    \/ SgCleanupExpired

SpecSigners == Init /\ [][NextSigners]_vars

(* ---------------- the role specification ------------------------------- *)
\* LPStaking is an AccessControl (line 196) and its constructor grants
\* DEFAULT_ADMIN_ROLE, the admin role of every role, to the deployer (line
\* 298).  The contract therefore also answers the inherited external
\* functions grantRole, revokeRole and renounceRole of OpenZeppelin's
\* AccessControl, here for role = ADMIN_ROLE: grantRole and revokeRole
\* require the caller to hold DEFAULT_ADMIN_ROLE, renounceRole gives up the
\* caller's own role.  In the tests the deployer is the first signer.
Deployer == "s1"
RoleAccounts == {"s4", "u1"}

grantRole(sender, account) ==
    /\ sender = Deployer
    /\ admins' = admins \cup {account}
    /\ UNCHANGED <<now, signers, actionCounter, actions, hourlyRewardRate,
                   totalWeight, pairs, activePairs, rewardPerTokenStored,
                   lastUpdateTime, userStakes, balances>>

revokeRole(sender, account) ==
    /\ sender = Deployer
    /\ admins' = admins \ {account}
    /\ UNCHANGED <<now, signers, actionCounter, actions, hourlyRewardRate,
                   totalWeight, pairs, activePairs, rewardPerTokenStored,
                   lastUpdateTime, userStakes, balances>>

renounceRole(sender) ==
    /\ admins' = admins \ {sender}
    /\ UNCHANGED <<now, signers, actionCounter, actions, hourlyRewardRate,
                   totalWeight, pairs, activePairs, rewardPerTokenStored,
                   lastUpdateTime, userStakes, balances>>

RlGrant == \E s \in SignerCallers, a \in RoleAccounts : grantRole(s, a)

RlRevoke == \E s \in SignerCallers, a \in RoleAccounts : revokeRole(s, a)

RlRenounce == \E s \in RoleAccounts : renounceRole(s)

NextRoles ==
    \/ RlGrant
    \/ RlRevoke
    \/ RlRenounce
    \/ SgPropose
    \/ SgApprove
    \/ SgExecute

SpecRoles == Init /\ [][NextRoles]_vars

(* ======================= claims: the multisig ========================== *)
Principals == {"s1", "s2", "s3", "s4", "u1", "u2"}

\* the action can be executed as far as its own kind is concerned: kinds
\* without a precondition of their own (rate change with no pool staked in,
\* signer change)
Unconditional(pa) ==
    \/ pa.actionType = "SET_HOURLY_REWARD_RATE" /\ ~updateAllReverts
    \/ pa.actionType = "CHANGE_SIGNER"

\* C1: executeAction succeeds only with at least REQUIRED_APPROVALS approvals
\* of pairwise distinct principals (the proposer's counting as one): a step
\* that sets an action's executed flag starts with approvals >= 3 held by at
\* least 3 distinct principals; with fewer approvals (propose + one approval)
\* executeAction is disabled for every caller; with exactly three approvals
\* of an unexpired action any signer can execute it.
C1_ThresholdGatesExecution ==
    /\ [][\A id \in 1..actionCounter :
             (~actions[id].executed /\ actions'[id].executed) =>
                 /\ actions[id].approvals >= REQUIRED_APPROVALS
                 /\ Cardinality(Range(actions[id].approvedBy))
                        >= REQUIRED_APPROVALS]_vars
    /\ [](\A id \in 1..actionCounter :
             actions[id].approvals < REQUIRED_APPROVALS =>
                 \A s \in Principals : ~ENABLED executeAction(s, id))
    /\ [](\A id \in 1..actionCounter :
             (/\ actions[id].approvals = REQUIRED_APPROVALS
              /\ ~actions[id].executed
              /\ ~actions[id].expired
              /\ now <= actions[id].proposedTime + ACTION_EXPIRY
              /\ Unconditional(actions[id])) =>
                 \A s \in admins : ENABLED executeAction(s, id))

\* an action executed on exactly three approvals
C1_Witness ==
    \E id \in 1..actionCounter :
        /\ actions[id].executed
        /\ actions[id].approvals = REQUIRED_APPROVALS
        /\ Len(actions[id].approvedBy) = REQUIRED_APPROVALS

\* reward tokens withdrawn by the executed WITHDRAW_REWARDS actions from i on
RECURSIVE withdrawnFrom(_)
withdrawnFrom(i) ==
    IF i > actionCounter THEN 0
    ELSE (IF actions[i].executed /\ actions[i].actionType = "WITHDRAW_REWARDS"
          THEN actions[i].withdrawAmount ELSE 0) + withdrawnFrom(i + 1)

\* C2: no action is executed twice.  Once executed is set no executeAction
\* step exists for that id; every change of the administered state (rate,
\* weights, pools, signers, token ledgers) happens in a step that turns
\* exactly one action from not executed to executed; and the recipient of
\* the withdrawals holds exactly the withdrawAmount of each executed
\* WITHDRAW_REWARDS once.
C2_ExecutedOnce ==
    /\ [][\A id \in 1..actionCounter :
             actions[id].executed =>
                 \A s \in Principals : ~executeAction(s, id)]_vars
    /\ [][<<admins, signers, hourlyRewardRate, totalWeight, pairs,
             activePairs, balances>>'
           # <<admins, signers, hourlyRewardRate, totalWeight, pairs,
               activePairs, balances>>
           => \E id \in 1..actionCounter :
                /\ ~actions[id].executed
                /\ actions' = [actions EXCEPT ![id].executed = TRUE]]_vars
    /\ [](balanceOf(balances, RewardToken, "u2") = UserFunds + withdrawnFrom(1))

\* a withdrawal has been executed and paid
C2_Witness ==
    \E id \in 1..actionCounter :
        /\ actions[id].executed
        /\ actions[id].actionType = "WITHDRAW_REWARDS"
        /\ balanceOf(balances, RewardToken, "u2")
              = UserFunds + actions[id].withdrawAmount

\* C3: approval idempotence.  A principal already in approvedBy (the
\* proposer included) cannot approve again; approvedBy only ever grows by
\* one new principal together with approvals + 1; so approvals equals the
\* length of approvedBy, which holds no duplicate.
C3_ApprovalIdempotence ==
    /\ [](\A id \in 1..actionCounter :
             /\ actions[id].approvals = Len(actions[id].approvedBy)
             /\ Cardinality(Range(actions[id].approvedBy))
                   = Len(actions[id].approvedBy)
             /\ \A s \in Range(actions[id].approvedBy) :
                   ~ENABLED approveAction(s, id))
    /\ [][\A id \in 1..actionCounter :
             actions'[id].approvedBy # actions[id].approvedBy =>
                 \E s \in Principals \ Range(actions[id].approvedBy) :
                     /\ actions'[id].approvedBy
                           = Append(actions[id].approvedBy, s)
                     /\ actions'[id].approvals = actions[id].approvals + 1]_vars

\* an action approved by its proposer and by one more signer
C3_Witness ==
    \E id \in 1..actionCounter :
        /\ actions[id].approvals = 2
        /\ actions[id].approvedBy = <<"s1", "s2">>

\* C4: expiry finality.  Once now > proposedTime + ACTION_EXPIRY neither
\* approveAction nor executeAction is enabled for any caller, flagged or
\* not, whatever the approvals, and no step changes the action's approvals,
\* approvedBy or executed flag; at now = proposedTime + ACTION_EXPIRY both
\* are still enabled.
C4_ExpiryFinality ==
    /\ [](\A id \in 1..actionCounter :
             now > actions[id].proposedTime + ACTION_EXPIRY =>
                 \A s \in Principals :
                     /\ ~ENABLED approveAction(s, id)
                     /\ ~ENABLED executeAction(s, id))
    /\ [][\A id \in 1..actionCounter :
             now > actions[id].proposedTime + ACTION_EXPIRY =>
                 /\ actions'[id].approvals = actions[id].approvals
                 /\ actions'[id].approvedBy = actions[id].approvedBy
                 /\ actions'[id].executed = actions[id].executed]_vars
    /\ [](\A id \in 1..actionCounter :
             (/\ now = actions[id].proposedTime + ACTION_EXPIRY
              /\ ~actions[id].executed) =>
                 /\ ~actions[id].expired
                 /\ \A s \in admins \ Range(actions[id].approvedBy) :
                       ENABLED approveAction(s, id)
                 /\ (/\ actions[id].approvals >= REQUIRED_APPROVALS
                     /\ Unconditional(actions[id])) =>
                       \A s \in admins : ENABLED executeAction(s, id))

\* a fully approved action past its expiry that nobody flagged
C4_Witness ==
    \E id \in 1..actionCounter :
        /\ now > actions[id].proposedTime + ACTION_EXPIRY
        /\ actions[id].approvals >= REQUIRED_APPROVALS
        /\ ~actions[id].expired
        /\ ~actions[id].executed

\* C5: executed and expired are terminal and exclude each other: no action
\* has both flags, and once either flag is set no step changes anything of
\* the action (flags, approvals, approvedBy, payload).
C5_TerminalStates ==
    /\ [](\A id \in 1..actionCounter :
             ~(actions[id].executed /\ actions[id].expired))
    /\ [][\A id \in 1..actionCounter :
             (actions[id].executed \/ actions[id].expired) =>
                 actions'[id] = actions[id]]_vars

\* one action executed, another flagged expired after gathering approvals,
\* and time has passed since the execution window of both
C5_Witness ==
    \E i, j \in 1..actionCounter :
        /\ actions[i].executed
        /\ now > actions[i].proposedTime + ACTION_EXPIRY
        /\ actions[j].expired
        /\ actions[j].approvals >= 2

(* ======================= claims: staking and rewards =================== *)
\* the step executes action id, which is of the given kind
Executes(id, kind) ==
    /\ id \in 1..actionCounter
    /\ actions[id].actionType = kind
    /\ ~actions[id].executed
    /\ actions'[id].executed

\* C6: no double claim.  After a successful claimRewards(pool) by u, in the
\* state it leaves (same timestamp, nothing in between) u's entitlement is
\* 0, so a second claimRewards(pool) by u fails ("No rewards to claim") and
\* transfers nothing.
C6_NoDoubleClaim ==
    [][\A u \in Users, t \in Tokens :
          claimRewards(u, t) =>
              /\ balanceOf(balances, RewardToken, u)'
                    > balanceOf(balances, RewardToken, u)
              /\ (earnedAfterUpdate(u, t) = 0)'
              /\ ~canClaim(u, t)']_vars

\* a staker has just been paid a reward and still has his stake
C6_Witness ==
    \E u \in Users :
        /\ balanceOf(balances, RewardToken, u) > UserFunds
        /\ userStakes[u]["LP1"].amount > 0
        /\ userStakes[u]["LP1"].rewardPerTokenPaid = rewardPerTokenStored["LP1"]
        /\ rewardPerTokenStored["LP1"] > 0
        /\ lastUpdateTime["LP1"] = now

\* C7: earned / claimRewards round trip.  Wherever claimRewards(pool) by u
\* succeeds, the reward tokens it transfers to u equal earned(u, pool) read
\* in the state before it, and earned(u, pool) is 0 right after; and
\* wherever the pool is active, earned(u, pool) > 0 and the contract holds
\* that many reward tokens, claimRewards succeeds.
C7_EarnedEqualsClaimed ==
    /\ [][\A u \in Users, t \in Tokens :
             claimRewards(u, t) =>
                 /\ ~earnedReverts(u, t)
                 /\ earned(u, t) > 0
                 /\ balanceOf(balances, RewardToken, u)'
                       - balanceOf(balances, RewardToken, u) = earned(u, t)
                 /\ balanceOf(balances, RewardToken, THIS)
                       - balanceOf(balances, RewardToken, THIS)' = earned(u, t)
                 /\ ~earnedReverts(u, t)'
                 /\ earned(u, t)' = 0]_vars
    /\ [](\A u \in Users, t \in Tokens :
             (/\ pairs[t].isActive
              /\ ~earnedReverts(u, t)
              /\ earned(u, t) > 0
              /\ balanceOf(balances, RewardToken, THIS) >= earned(u, t)) =>
                 ENABLED claimRewards(u, t))

\* a staker sharing a pool has been paid while time has passed since the
\* pool's last update for the other one
C7_Witness ==
    /\ balanceOf(balances, RewardToken, "u1") > UserFunds
    /\ userStakes["u1"]["LP1"].amount > 0
    /\ userStakes["u2"]["LP1"].amount > 0
    /\ earned("u2", "LP1") > 0
    /\ now > lastUpdateTime["LP1"]

\* the sum of the recorded amounts of all users in a pool
staked(t) == userStakes["u1"][t].amount + userStakes["u2"][t].amount

\* C8: conservation.  For every registered pool the sum over all users of
\* userStakes[user][pool].amount equals the pool token's balance held by
\* the contract (the supply the reward index divides by).
C8_Conservation ==
    \A t \in Tokens :
        pairs[t].lpToken # ZERO => staked(t) = balanceOf(balances, t, THIS)

\* the part of C8 that does hold: pools whose token is not the reward token
C8_ConservationOfOtherTokens ==
    \A t \in Tokens \ {RewardToken} :
        staked(t) = balanceOf(balances, t, THIS)

\* C9: a rate change is not retroactive.  The step that executes a
\* SET_HOURLY_REWARD_RATE action checkpoints every active pool at now and
\* leaves earned(u, p) of every user and active pool exactly as it was, so
\* the time before the change is paid at the old rate and only the time
\* after it at the new one.
C9_RateChangeNotRetroactive ==
    [][\A id \in 1..actionCounter :
          Executes(id, "SET_HOURLY_REWARD_RATE") =>
              /\ hourlyRewardRate' = actions[id].newHourlyRewardRate
              /\ \A i \in 1..Len(activePairs) :
                    /\ lastUpdateTime'[activePairs[i]] = now
                    /\ \A u \in Users :
                          /\ ~earnedReverts(u, activePairs[i])
                          /\ ~earnedReverts(u, activePairs[i])'
                          /\ earned(u, activePairs[i])'
                                = earned(u, activePairs[i])]_vars

\* u1, alone in LP1 with 1 token since time 1, has earned 1 for the tick at
\* rate 2 (checkpointed at time 2, when the rate became 4) plus 2 for the
\* tick at rate 4: 3, not 2 and not 4
C9_Witness ==
    /\ now = 3
    /\ hourlyRewardRate = 4
    /\ userStakes["u1"]["LP1"]
          = [amount |-> 1, pendingRewards |-> 0, rewardPerTokenPaid |-> 0]
    /\ balanceOf(balances, "LP1", THIS) = 1
    /\ rewardPerTokenStored["LP1"] = 100
    /\ lastUpdateTime["LP1"] = 2
    /\ earned("u1", "LP1") = 3

\* C10: adding or removing a pool leaves the rewards of the other pools
\* alone: the step that executes an ADD_PAIR or REMOVE_PAIR action leaves
\* earned(u, p) unchanged for every user and every other active pool p.
C10_PoolChangeKeepsEarned ==
    [][\A id \in 1..actionCounter :
          (Executes(id, "ADD_PAIR") \/ Executes(id, "REMOVE_PAIR")) =>
              \A u \in Users, i \in 1..Len(activePairs) :
                  (/\ activePairs[i] # actions[id].pairToAdd
                   /\ activePairs[i] # actions[id].pairToRemove
                   /\ ~earnedReverts(u, activePairs[i])
                   /\ ~earnedReverts(u, activePairs[i])') =>
                      earned(u, activePairs[i])' = earned(u, activePairs[i])]_vars

(* ======================= claims: weights and pools ===================== *)
\* C11: weight-change checkpoint.  The step that executes an
\* UPDATE_PAIR_WEIGHTS action brings the index of every active pool up to
\* now with the weights and totalWeight in force before it
\* (lastUpdateTime = now for all of them), and earned(u, p) of every user
\* and active pool is the same right before and right after it.
C11_WeightChangeCheckpoint ==
    [][\A id \in 1..actionCounter :
          Executes(id, "UPDATE_PAIR_WEIGHTS") =>
              \A i \in 1..Len(activePairs) :
                  /\ lastUpdateTime'[activePairs[i]] = now
                  /\ rewardPerTokenStored'[activePairs[i]]
                        = updatedRewardPerToken(activePairs[i])
                  /\ \A u \in Users :
                        /\ ~earnedReverts(u, activePairs[i])
                        /\ ~earnedReverts(u, activePairs[i])'
                        /\ earned(u, activePairs[i])'
                              = earned(u, activePairs[i])]_vars

\* the weight of LP1 was changed while u1 had accrued reward there: only
\* the execution can have moved the index past u1's snapshot at this time
C11_Witness ==
    /\ pairs["LP1"].weight = 2
    /\ userStakes["u1"]["LP1"].amount > 0
    /\ rewardPerTokenStored["LP1"] > userStakes["u1"]["LP1"].rewardPerTokenPaid
    /\ lastUpdateTime["LP1"] = now
    /\ earned("u1", "LP1") > 0

(* ======================= claims: unstake and funding =================== *)
\* C12: unstake without claiming keeps the reward pending.  Wherever u has
\* a stake with accrued reward in an active pool, u can withdraw the whole
\* stake in a call that pays no reward and leaves amount = 0 and
\* pendingRewards = earned(u, pool) > 0 for a later claimRewards.
C12_UnstakeKeepsRewardPending ==
    \A u \in Users, t \in Tokens :
        (/\ pairs[t].isActive
         /\ userStakes[u][t].amount > 0
         /\ ~earnedReverts(u, t)
         /\ earned(u, t) > 0) =>
            ENABLED (/\ unstake(u, t, userStakes[u][t].amount)
                     /\ userStakes'[u][t].amount = 0
                     /\ userStakes'[u][t].pendingRewards = earned(u, t)
                     /\ balanceOf(balances', RewardToken, u)
                           = balanceOf(balances, RewardToken, u))

\* C13: no reward is lost by stake or unstake.  For every successful stake
\* or unstake (full or partial) of u on p, earned(u, p) right after the
\* call plus the reward tokens the call transferred to u equals
\* earned(u, p) right before it.
C13_NoRewardLost ==
    [][\A u \in Users, t \in Tokens \ {RewardToken}, a \in StakeAmounts :
          (stake(u, t, a) \/ unstake(u, t, a)) =>
              /\ ~earnedReverts(u, t)
              /\ ~earnedReverts(u, t)'
              /\ earned(u, t)'
                    + (balanceOf(balances, RewardToken, u)'
                         - balanceOf(balances, RewardToken, u))
                    = earned(u, t)]_vars

\* C14: claimRewards under reward-token shortage.  While the contract
\* holds fewer reward tokens than u's computed reward, claimRewards of u is
\* not possible (nothing is committed); refilling the contract and the
\* passing of time never lower the entitlement; and as soon as the
\* contract holds the computed reward the claim succeeds and pays the
\* whole of it.
C14_ClaimAtomicUnderShortage ==
    /\ [](\A u \in Users, t \in Tokens :
             (/\ pairs[t].isActive
              /\ ~updateReverts(t)
              /\ ~earnedAfterUpdateReverts(u, t)
              /\ balanceOf(balances, RewardToken, THIS)
                    < earnedAfterUpdate(u, t)) =>
                 ~ENABLED claimRewards(u, t))
    /\ [][(Refill \/ Tick) =>
             \A u \in Users, t \in Tokens :
                 (pairs[t].isActive /\ ~earnedReverts(u, t)) =>
                     /\ ~earnedReverts(u, t)'
                     /\ earned(u, t)' >= earned(u, t)]_vars
    /\ [][\A u \in Users, t \in Tokens :
             claimRewards(u, t) =>
                 /\ balanceOf(balances, RewardToken, u)'
                       - balanceOf(balances, RewardToken, u)
                       = earnedAfterUpdate(u, t)
                 /\ userStakes'[u][t].pendingRewards = 0]_vars

\* the contract has been refilled, but with less than u1 is owed
C14_Witness ==
    /\ userStakes["u1"]["LP1"].amount > 0
    /\ earned("u1", "LP1") = 2
    /\ balanceOf(balances, RewardToken, THIS) = 1
    /\ ~ENABLED claimRewards("u1", "LP1")

\* C15: a user can always exit, whatever the reward funding.  Wherever u
\* has a > 0 staked in an active pool, u can unstake any amount up to a and
\* receives exactly that many LP tokens.
C15_ExitIndependentOfFunding ==
    \A u \in Users, t \in Tokens \ {RewardToken} :
        (pairs[t].isActive /\ ~updateReverts(t)) =>
            \A a \in 1..userStakes[u][t].amount :
                ENABLED (/\ unstake(u, t, a)
                         /\ balanceOf(balances', t, u)
                               = balanceOf(balances, t, u) + a)

\* C16: a pool whose weight an executed UPDATE_PAIR_WEIGHTS set to 0 stays
\* active (the execution changes no isActive flag), and every user with
\* stake in an active pool of weight 0 can unstake the full amount, whatever
\* totalWeight is.
C16_ZeroWeightPoolCanBeLeft ==
    /\ [][\A id \in 1..actionCounter :
             Executes(id, "UPDATE_PAIR_WEIGHTS") =>
                 \A t \in Tokens : pairs'[t].isActive = pairs[t].isActive]_vars
    /\ [](\A u \in Users, t \in Tokens :
             (/\ pairs[t].isActive
              /\ pairs[t].weight = 0
              /\ userStakes[u][t].amount > 0) =>
                 ENABLED unstake(u, t, userStakes[u][t].amount))

\* the part of C16 that does hold: while another active pool keeps
\* totalWeight positive
C16_HoldsWhileTotalWeightPositive ==
    \A u \in Users, t \in Tokens :
        (/\ pairs[t].isActive
         /\ pairs[t].weight = 0
         /\ totalWeight > 0
         /\ userStakes[u][t].amount > 0) =>
            ENABLED unstake(u, t, userStakes[u][t].amount)

\* a staker sits in a pool of weight 0 while another pool carries weight
C16_OtherPoolCarriesWeight ==
    /\ pairs["LP1"].isActive
    /\ pairs["LP1"].weight = 0
    /\ totalWeight > 0
    /\ userStakes["u1"]["LP1"].amount > 0
    /\ now > lastUpdateTime["LP1"]

\* the weight a pool contributes: its weight if it is active, else nothing
contribution(t) == IF pairs[t].isActive THEN pairs[t].weight ELSE 0

\* C17: totalWeight consistency.  In every reachable state totalWeight is
\* the sum of weight over exactly the pools with isActive = TRUE, and
\* activePairs lists exactly those pools, once each - also after weight
\* updates that name a subset of the pools or a removed pool.
C17_TotalWeightConsistent ==
    /\ totalWeight
          = contribution("RT") + contribution("LP1") + contribution("LP2")
    /\ Range(activePairs) = {t \in Tokens : pairs[t].isActive}
    /\ Len(activePairs) = Cardinality(Range(activePairs))

\* LP1 was removed (its weight zeroed) and a later executed weight update
\* named it: it carries a weight again, and contributes nothing
C17_Witness ==
    /\ ~pairs["LP1"].isActive
    /\ pairs["LP1"].weight = 2
    /\ activePairs = <<>>
    /\ totalWeight = 0

(* ======================= claims: signers and authorization ============= *)
\* C18: signer-set invariant.  In every reachable state exactly 4 distinct
\* principals hold ADMIN_ROLE and the signers array lists exactly those 4;
\* the set changes only in a step that executes a CHANGE_SIGNER action, and
\* such a step replaces exactly one member.
C18_SignerSetInvariant ==
    /\ [](/\ Cardinality(admins) = 4
          /\ Len(signers) = 4
          /\ Range(signers) = admins)
    /\ [][(admins' # admins \/ signers' # signers) =>
             /\ \E id \in 1..actionCounter : Executes(id, "CHANGE_SIGNER")
             /\ Cardinality(admins \ admins') = 1
             /\ Cardinality(admins' \ admins) = 1]_vars

\* a call of the multisig by p that the model explores
adminCall(p) ==
    \/ proposeSetHourlyRewardRate(p, 2)
    \/ proposeAddPair(p, "LP1", 1)
    \/ proposeRemovePair(p, "LP1")
    \/ proposeUpdatePairWeights(p, <<"LP1">>, <<2>>)
    \/ proposeWithdrawRewards(p, "u2", 1)
    \/ \E old \in OldSigners, new \in NewSigners :
          proposeChangeSigner(p, old, new)
    \/ \E id \in 1..actionCounter :
          \/ approveAction(p, id)
          \/ executeAction(p, id)
          \/ handleExpiredAction(p, id)
    \/ cleanupExpiredActions(p)

\* C20: authorization.  No call of propose*, approveAction, executeAction,
\* handleExpiredAction or cleanupExpiredActions by a principal that does
\* not hold ADMIN_ROLE succeeds, while every holder can propose; the step
\* that executes a CHANGE_SIGNER leaves the old signer without the role and
\* the new signer with it.
C20_Authorization ==
    /\ [](\A p \in Principals :
             /\ p \notin admins => ~ENABLED adminCall(p)
             /\ p \in admins => ENABLED proposeSetHourlyRewardRate(p, 2))
    /\ [][\A id \in 1..actionCounter :
             Executes(id, "CHANGE_SIGNER") =>
                 /\ actions[id].pairToAdd \notin admins'
                 /\ actions[id].pairToRemove \in admins']_vars

\* s4 was replaced by u1, and u1 has since made a proposal of its own
C20_Witness ==
    /\ "s4" \notin admins
    /\ "u1" \in admins
    /\ actionCounter = 2
    /\ actions[1].executed
    /\ actions[1].actionType = "CHANGE_SIGNER"
    /\ actions[2].approvedBy[1] = "u1"

\* the step changes something only the administrators may change: the rate,
\* a weight or isActive flag, activePairs, totalWeight, the signer set, or
\* it sends reward tokens out of the contract other than as a staker's
\* payout
adminMutation ==
    \/ hourlyRewardRate' # hourlyRewardRate
    \/ \E t \in Tokens : \/ pairs'[t].weight # pairs[t].weight
                          \/ pairs'[t].isActive # pairs[t].isActive
    \/ activePairs' # activePairs
    \/ totalWeight' # totalWeight
    \/ admins' # admins
    \/ signers' # signers
    \/ /\ balanceOf(balances', RewardToken, THIS)
            < balanceOf(balances, RewardToken, THIS)
       /\ ~\E u \in Users, t \in Tokens :
              \/ claimRewards(u, t)
              \/ \E a \in StakeAmounts : unstake(u, t, a)

\* C19: all administrative mutations are gated by the multisig: they
\* happen only in a step that executes an action holding at least
\* REQUIRED_APPROVALS approvals.
C19_MultisigGatesMutations ==
    [][adminMutation =>
          \E id \in 1..actionCounter :
              /\ ~actions[id].executed
              /\ actions'[id].executed
              /\ actions[id].approvals >= REQUIRED_APPROVALS]_vars

(* ======================= claims: stake and unstake calls =============== *)
\* the stake records of everybody but (u, t) are as they were
othersUntouched(u, t) ==
    \A v \in Users, x \in Tokens :
        (v # u \/ x # t) => userStakes'[v][x] = userStakes[v][x]

\* C21: stake(pool, amount) is not possible if the pool is not active, its
\* weight is 0, amount < MIN_STAKE or amount exceeds the 128-bit ceiling;
\* otherwise (the caller holding the tokens) it is possible, adds exactly
\* amount to the caller's recorded amount, moves exactly amount LP tokens
\* from the caller to the contract and leaves every other stake record
\* unchanged.
C21_StakeChecksAndEffect ==
    /\ [](\A u \in Users, t \in Tokens, a \in 0..(UINT128_MAX + 1) :
             /\ (\/ ~pairs[t].isActive
                 \/ pairs[t].weight = 0
                 \/ a < MIN_STAKE
                 \/ a > UINT128_MAX) => ~ENABLED stake(u, t, a)
             /\ (/\ pairs[t].isActive
                 /\ pairs[t].weight > 0
                 /\ a >= MIN_STAKE
                 /\ a <= UINT128_MAX
                 /\ balanceOf(balances, t, u) >= a) => ENABLED stake(u, t, a))
    /\ [][\A u \in Users, t \in Tokens, a \in StakeAmounts :
             stake(u, t, a) =>
                 /\ userStakes'[u][t].amount = userStakes[u][t].amount + a
                 /\ balanceOf(balances, t, u)' = balanceOf(balances, t, u) - a
                 /\ balanceOf(balances, t, THIS)'
                       = balanceOf(balances, t, THIS) + a
                 /\ othersUntouched(u, t)]_vars

\* u1 has staked on top of a stake that had accrued reward (only that
\* leaves pendingRewards > 0), and LP1 has since been given weight 0
C21_Witness ==
    /\ userStakes["u1"]["LP1"].amount = 2
    /\ userStakes["u1"]["LP1"].pendingRewards > 0
    /\ pairs["LP1"].isActive
    /\ pairs["LP1"].weight = 0
    /\ balanceOf(balances, "LP1", "u1") = 0

\* C22: unstake(pool, amount) is not possible when amount exceeds the
\* caller's recorded amount; a successful unstake lowers the caller's
\* recorded amount by exactly amount, returns exactly amount LP tokens to
\* the caller out of the contract, and touches nobody else's stake record
\* or LP tokens.
C22_UnstakeChecksAndEffect ==
    /\ [](\A u \in Users, t \in Tokens, a \in 0..(UserFunds + 1) :
             a > userStakes[u][t].amount => ~ENABLED unstake(u, t, a))
    /\ [][\A u \in Users, t \in Tokens \ {RewardToken}, a \in StakeAmounts :
             unstake(u, t, a) =>
                 /\ userStakes'[u][t].amount = userStakes[u][t].amount - a
                 /\ userStakes'[u][t].amount >= 0
                 /\ balanceOf(balances, t, u)' = balanceOf(balances, t, u) + a
                 /\ balanceOf(balances, t, THIS)'
                       = balanceOf(balances, t, THIS) - a
                 /\ othersUntouched(u, t)
                 /\ \A v \in Users \ {u}, x \in Tokens :
                       balanceOf(balances, x, v)' = balanceOf(balances, x, v)]_vars

\* u1, never paid a reward, has withdrawn a part of a stake after the index
\* moved, while u2 keeps a stake in the same pool
C22_Witness ==
    /\ userStakes["u1"]["LP1"]
          = [amount |-> 1, pendingRewards |-> 0,
             rewardPerTokenPaid |-> rewardPerTokenStored["LP1"]]
    /\ rewardPerTokenStored["LP1"] > 0
    /\ balanceOf(balances, RewardToken, "u1") = UserFunds
    /\ userStakes["u1"][RewardToken].amount = 0
    /\ balanceOf(balances, "LP1", "u1") = UserFunds - 1
    /\ userStakes["u2"]["LP1"].amount > 0

(* ======================= claims: the accrual formula =================== *)
\* the closed form: what a stake of a accrues over T seconds in a pool it
\* has to itself, of weight w out of W, at hourly rate R
accrued(a, R, w, W, T) ==
    (a * ((((((R \div SECONDS_PER_HOUR) * T) * w) \div W) * PRECISION) \div a))
        \div PRECISION

\* user holds the whole supply of the pool, was checkpointed with nothing
\* owed at lastUpdateTime[t], and no pool has been registered since
soleSince(user, t) ==
    /\ userStakes[user][t].amount > 0
    /\ balanceOf(balances, t, THIS) = userStakes[user][t].amount
    /\ userStakes[user][t].pendingRewards = 0
    /\ userStakes[user][t].rewardPerTokenPaid = rewardPerTokenStored[t]
    /\ \A p \in Tokens : lastUpdateTime[p] <= lastUpdateTime[t]
    /\ totalWeight > 0

\* C23: a sole staker of a in a pool of weight w out of W, hourly rate R, can
\* claim after T seconds exactly a * floor(floor(floor(R / SECONDS_PER_HOUR)
\* * T * w / W) * PRECISION / a) / PRECISION rounded down (the view shows it
\* and claimRewards pays it), never more than R * T / SECONDS_PER_HOUR * w / W.
C23_AccrualFormula ==
    /\ [](\A u \in Users, t \in Tokens \ {RewardToken} :
             soleSince(u, t) =>
                 LET due == accrued(userStakes[u][t].amount, hourlyRewardRate,
                                    pairs[t].weight, totalWeight,
                                    now - lastUpdateTime[t])
                 IN  /\ earned(u, t) = due
                     /\ due * SECONDS_PER_HOUR * totalWeight
                          <= hourlyRewardRate * (now - lastUpdateTime[t])
                               * pairs[t].weight)
    /\ [][\A u \in Users, t \in Tokens \ {RewardToken} :
             (soleSince(u, t) /\ claimRewards(u, t)) =>
                 balanceOf(balances, RewardToken, u)'
                   = balanceOf(balances, RewardToken, u)
                     + accrued(userStakes[u][t].amount, hourlyRewardRate,
                               pairs[t].weight, totalWeight,
                               now - lastUpdateTime[t])]_vars

\* u1, alone in LP1 with weight 2 out of 3, has had 2 staked for 2 seconds at
\* 1 token per second: the unrounded share is 4/3, the formula gives 1
C23_Witness ==
    /\ soleSince("u1", "LP1")
    /\ userStakes["u1"]["LP1"].amount = 2
    /\ pairs["LP1"].weight = 2
    /\ totalWeight = 3
    /\ now - lastUpdateTime["LP1"] = 2
    /\ earned("u1", "LP1") = 1
    /\ ENABLED claimRewards("u1", "LP1")

(* ---------------- the re-entrancy specification ------------------------ *)
\* The reward token is whatever ERC20 the constructor was given.  Here it is
\* one that calls its recipient on transfer.  executeAction carries no
\* nonReentrant modifier and writes pa.executed after the transfer, so the
\* recipient, if it holds ADMIN_ROLE, can call executeAction(actionId) from
\* inside the transfer: the inner call passes every require again, transfers
\* and sets executed; then the outer call resumes and sets executed.
\* The whole nested transaction is one step.
executeActionReentered(sender, actionId) ==
    /\ sender \in admins
    /\ actionId > 0 /\ actionId <= actionCounter
    /\ canExecute(actions[actionId])
    /\ actions[actionId].actionType = "WITHDRAW_REWARDS"
    /\ LET pa == actions[actionId]
           afterOuter == transferred(balances, RewardToken, THIS, pa.recipient,
                                     pa.withdrawAmount)
       IN  /\ pa.recipient # ZERO
           /\ balanceOf(balances, RewardToken, THIS) >= pa.withdrawAmount
           \* the inner call, msg.sender = pa.recipient
           /\ pa.recipient \in admins
           /\ balanceOf(afterOuter, RewardToken, THIS) >= pa.withdrawAmount
           /\ balances' = transferred(afterOuter, RewardToken, THIS,
                                      pa.recipient, pa.withdrawAmount)
    /\ actions' = [actions EXCEPT ![actionId].executed = TRUE]
    /\ UNCHANGED <<now, admins, signers, actionCounter, hourlyRewardRate,
                   totalWeight, pairs, activePairs, rewardPerTokenStored,
                   lastUpdateTime, userStakes>>

ReCallers == {"s1", "s2", "s3"}

RePropose ==
    /\ actionCounter < MaxActions
    /\ \E s \in ReCallers, r \in {"s2", "u2"} : proposeWithdrawRewards(s, r, 1)

ReApprove == \E s \in ReCallers, id \in ActionIds : approveAction(s, id)

ReExecute == \E s \in ReCallers, id \in ActionIds : executeAction(s, id)

ReExecuteReentered ==
    \E s \in ReCallers, id \in ActionIds : executeActionReentered(s, id)

NextReentry ==
    \/ Tick
    \/ RePropose
    \/ ReApprove
    \/ ReExecute
    \/ ReExecuteReentered

SpecReentry == Init /\ [][NextReentry]_vars

(* ======================= claims: re-entrancy =========================== *)
\* C24: stake, unstake, claimRewards and executeAction of WITHDRAW_REWARDS
\* finish their state writes (the executed flag included) before the token
\* transfer and run under the non-reentrant guard, so a callback of the
\* token cannot execute the same withdrawal twice: the transaction that
\* executes a WITHDRAW_REWARDS action pays out withdrawAmount once.
C24_WithdrawalPaidOnce ==
    [][\A id \in ActionIds :
          Executes(id, "WITHDRAW_REWARDS") =>
              balanceOf(balances, RewardToken, THIS)'
                = balanceOf(balances, RewardToken, THIS)
                  - actions[id].withdrawAmount]_vars

(* ======================= claims: stale submissions ===================== *)
\* what an action asks for has been overtaken by the current state
stale(pa) ==
    \/ pa.actionType = "ADD_PAIR" /\ pairs[pa.pairToAdd].lpToken # ZERO
    \/ pa.actionType = "REMOVE_PAIR" /\ ~pairs[pa.pairToRemove].isActive
    \/ pa.actionType = "WITHDRAW_REWARDS"
         /\ pa.withdrawAmount > balanceOf(balances, RewardToken, THIS)

\* the signer an action replaces is no signer any more, or the signer it
\* installs is one already
staleSignerChange(pa) ==
    /\ pa.actionType = "CHANGE_SIGNER"
    \* the old signer is kept in pairToAdd, the new one in pairToRemove
    /\ (pa.pairToAdd \notin admins \/ pa.pairToRemove \in admins)

\* C25: stale submissions fail deterministically.  Of two conflicting
\* submissions (two ADD_PAIR of one token, two REMOVE_PAIR of one pool, two
\* CHANGE_SIGNER that replace the same signer or install the same one, a
\* WITHDRAW_REWARDS above what an earlier one left), once the first has
\* executed, executeAction of the second is re-validated against the
\* current state and fails.
C25_StaleSubmissionFails ==
    \A id \in 1..actionCounter :
        (stale(actions[id]) \/ staleSignerChange(actions[id]))
            => \A s \in Holders : ~ENABLED executeAction(s, id)

\* the same without CHANGE_SIGNER: these three are re-validated
C25_StaleAddRemoveWithdrawFails ==
    \A id \in 1..actionCounter :
        stale(actions[id]) => \A s \in Holders : ~ENABLED executeAction(s, id)

(* ======================= claims: expiry marking ======================== *)
\* action id is past its window and carries neither flag
flaggable(id) ==
    /\ ~actions[id].executed
    /\ ~actions[id].expired
    /\ now > actions[id].proposedTime + ACTION_EXPIRY

terminal(id) == actions[id].executed \/ actions[id].expired

\* what both readings of the claim share: a flag is only ever set on a
\* flaggable action; cleanupExpiredActions flags every flaggable action and
\* changes nothing else; handleExpiredAction(id) flags that one action and
\* changes nothing else
ExactMarking ==
    [][/\ \A id \in 1..actionCounter :
            (~actions[id].expired /\ actions'[id].expired) =>
                /\ flaggable(id)
                /\ actions'[id] = [actions[id] EXCEPT !.expired = TRUE]
       /\ \A s \in GovCallers :
            cleanupExpiredActions(s) =>
                \A id \in 1..actionCounter :
                    actions'[id] = IF flaggable(id)
                                   THEN [actions[id] EXCEPT !.expired = TRUE]
                                   ELSE actions[id]
       /\ \A s \in GovCallers, id \in ActionIds :
            handleExpiredAction(s, id) =>
                /\ flaggable(id)
                /\ actions' = [actions EXCEPT ![id].expired = TRUE]]_vars

\* C26 as stated: expiry marking is exact, and applied to an action that is
\* already terminal both cleanupExpiredActions and handleExpiredAction(id)
\* are successful calls that change nothing.
C26_MarkingSucceedsOnTerminal ==
    /\ ExactMarking
    /\ [](\A s \in admins, id \in 1..actionCounter :
             terminal(id) =>
                 /\ ENABLED (cleanupExpiredActions(s)
                               /\ actions'[id] = actions[id])
                 /\ ENABLED handleExpiredAction(s, id))

\* C26 amended: expiry marking is exact; cleanupExpiredActions always
\* succeeds for an admin, leaves terminal actions as they are and leaves no
\* flaggable action behind, so a second sweep changes nothing;
\* handleExpiredAction(id) on a terminal action fails (as it does on one
\* still inside its window) and changes nothing.
C26_ExpiryMarking ==
    /\ ExactMarking
    /\ [](\A s \in admins, id \in 1..actionCounter :
             /\ ENABLED cleanupExpiredActions(s)
             /\ terminal(id) =>
                 /\ ENABLED (cleanupExpiredActions(s)
                               /\ actions'[id] = actions[id])
                 /\ ~ENABLED handleExpiredAction(s, id)
             /\ ~flaggable(id) => ~ENABLED handleExpiredAction(s, id))
    /\ [][\A s \in GovCallers :
             cleanupExpiredActions(s) =>
                 \A id \in 1..actionCounter : ~flaggable(id)']_vars

\* both actions were flagged after their window closed, one of them with
\* the approvals to execute
C26_Witness ==
    /\ actionCounter = 2
    /\ actions[1].expired
    /\ actions[2].expired
    /\ actions[1].approvals >= REQUIRED_APPROVALS
    /\ actions[2].approvals < REQUIRED_APPROVALS

(* ======================= claims: proposal creation ===================== *)
\* one of the six propose* calls of the governance specification, by s
proposes(s) ==
    \/ proposeSetHourlyRewardRate(s, 2)
    \/ proposeUpdatePairWeights(s, <<"LP1">>, <<2>>)
    \/ proposeAddPair(s, "LP1", 1)
    \/ proposeRemovePair(s, "LP1")
    \/ proposeChangeSigner(s, "s4", "u1")
    \/ proposeWithdrawRewards(s, "u2", 1)

\* C27: every successful propose* increases actionCounter by exactly 1 and
\* stores under the new id an action with proposedTime = now, executed and
\* expired false, approvals = 1 and approvedBy = [proposer], leaving the
\* earlier actions and everything else as they were; a propose* that fails
\* validation is no step at all; no other operation changes actionCounter,
\* so ids are never reused.
C27_ProposalCreation ==
    /\ [](Len(actions) = actionCounter)
    /\ [][\A s \in GovCallers :
             proposes(s) =>
                 /\ actionCounter' = actionCounter + 1
                 /\ actions'[actionCounter'].approvedBy = <<s>>]_vars
    /\ [][actionCounter' # actionCounter =>
             /\ actionCounter' = actionCounter + 1
             /\ actions'[actionCounter'].proposedTime = now
             /\ ~actions'[actionCounter'].executed
             /\ ~actions'[actionCounter'].expired
             /\ actions'[actionCounter'].approvals = 1
             /\ Len(actions'[actionCounter'].approvedBy) = 1
             /\ actions'[actionCounter'].approvedBy[1] \in admins
             /\ \A id \in 1..actionCounter : actions'[id] = actions[id]
             /\ UNCHANGED <<now, admins, signers, hourlyRewardRate,
                            totalWeight, pairs, activePairs,
                            rewardPerTokenStored, lastUpdateTime, userStakes,
                            balances>>]_vars
    /\ [][\A s \in GovCallers, id \in ActionIds :
             (\/ approveAction(s, id)
              \/ executeAction(s, id)
              \/ handleExpiredAction(s, id)
              \/ cleanupExpiredActions(s)) => actionCounter' = actionCounter]_vars
    /\ [](\A s \in GovCallers :
             /\ s \notin admins => ~ENABLED proposes(s)
             /\ ~ENABLED proposeAddPair(s, "LP1", 0)
             /\ ~ENABLED proposeAddPair(s, "LP1", MAX_WEIGHT + 1)
             /\ ~ENABLED proposeAddPair(s, ZERO, 1)
             /\ ~ENABLED proposeWithdrawRewards(s, "u2", 0)
             /\ ~ENABLED proposeWithdrawRewards(s, ZERO, 1)
             /\ ~ENABLED proposeChangeSigner(s, "s4", "s1")
             /\ ~ENABLED proposeChangeSigner(s, "u2", "u1"))

\* a second action proposed a second after the first, which has meanwhile
\* gathered its approvals: the new one carries its proposer's approval only
C27_Witness ==
    /\ actionCounter = 2
    /\ actions[1].proposedTime = 1
    /\ actions[1].approvals = REQUIRED_APPROVALS
    /\ actions[2].proposedTime = 2
    /\ actions[2].approvals = 1
    /\ actions[2].approvedBy # <<actions[1].approvedBy[1]>>

(* ======================= claims: signer replacement ==================== *)
\* C28: an executed CHANGE_SIGNER(old, new) is atomic: after the step old
\* does not hold ADMIN_ROLE, new holds it, signers holds new at the position
\* old occupied, and the other three signers and their roles are unchanged.
C28_SignerReplacementAtomic ==
    [][\A id \in 1..actionCounter :
          Executes(id, "CHANGE_SIGNER") =>
              LET old == actions[id].pairToAdd
                  new == actions[id].pairToRemove
              IN  /\ old \notin admins'
                  /\ new \in admins'
                  /\ \E i \in DOMAIN signers :
                        /\ signers[i] = old
                        /\ signers' = [signers EXCEPT ![i] = new]
                  /\ admins' \ {new} = admins \ {old}]_vars

\* the same for a replacement that is still what proposeChangeSigner
\* accepted (old holds the role and a seat, new holds neither)
C28_FreshReplacementAtomic ==
    [][\A id \in 1..actionCounter :
          (/\ Executes(id, "CHANGE_SIGNER")
           /\ actions[id].pairToAdd \in admins
           /\ actions[id].pairToAdd \in Range(signers)
           /\ actions[id].pairToRemove \notin admins) =>
              LET old == actions[id].pairToAdd
                  new == actions[id].pairToRemove
              IN  /\ old \notin admins'
                  /\ new \in admins'
                  /\ \E i \in DOMAIN signers :
                        /\ signers[i] = old
                        /\ signers' = [signers EXCEPT ![i] = new]
                  /\ admins' \ {new} = admins \ {old}]_vars

(* ---------------- the pool registry specification ---------------------- *)
\* After the fixture (LP1 registered with weight 1) the signers add and
\* remove pools: any of the three tokens, LP1 included, with either weight.
MaxRegistryActions == 4
AddWeights == {1, 2}

RgProposeAdd ==
    /\ actionCounter < MaxRegistryActions
    /\ \E t \in Tokens, w \in AddWeights : proposeAddPair("s1", t, w)

RgProposeRemove ==
    /\ actionCounter < MaxRegistryActions
    /\ \E t \in Tokens : proposeRemovePair("s1", t)

RgApprove ==
    \E s \in {"s2", "s3"}, id \in 1..MaxRegistryActions : approveAction(s, id)

RgExecute == \E id \in 1..MaxRegistryActions : executeAction("s1", id)

NextRegistry ==
    \/ Tick
    \/ RgProposeAdd
    \/ RgProposeRemove
    \/ RgApprove
    \/ RgExecute

SpecRegistry == InitStake /\ [][NextRegistry]_vars

(* ======================= claims: the pool registry ===================== *)
\* C29: executing ADD_PAIR(token, w) fails if token is already registered
\* (active or removed), if w = 0 or w > MAX_WEIGHT (no action carries such a
\* weight: proposeAddPair refuses it), or if MAX_PAIRS pools are active; a
\* successful one makes the pool active with weight w, appends it to the
\* index, adds w to totalWeight and sets the pool's lastUpdateTime to now;
\* the number of active pools never exceeds MAX_PAIRS.
C29_AddPair ==
    /\ [](\A id \in 1..actionCounter :
             (/\ actions[id].actionType = "ADD_PAIR"
              /\ \/ pairs[actions[id].pairToAdd].lpToken # ZERO
                 \/ actions[id].weightToAdd = 0
                 \/ actions[id].weightToAdd > MAX_WEIGHT
                 \/ Len(activePairs) >= MAX_PAIRS)
                => \A s \in Holders : ~ENABLED executeAction(s, id))
    /\ [](\A id \in 1..actionCounter :
             actions[id].actionType = "ADD_PAIR" =>
                 /\ actions[id].weightToAdd > 0
                 /\ actions[id].weightToAdd <= MAX_WEIGHT)
    /\ [](\A t \in Tokens :
             /\ ~ENABLED proposeAddPair("s1", t, 0)
             /\ ~ENABLED proposeAddPair("s1", t, MAX_WEIGHT + 1))
    /\ [][\A id \in 1..actionCounter :
             Executes(id, "ADD_PAIR") =>
                 LET t == actions[id].pairToAdd
                     w == actions[id].weightToAdd
                 IN  /\ pairs[t].lpToken = ZERO
                     /\ pairs' = [pairs EXCEPT ![t] =
                           [lpToken |-> t, weight |-> w, isActive |-> TRUE]]
                     /\ activePairs' = Append(activePairs, t)
                     /\ totalWeight' = totalWeight + w
                     /\ lastUpdateTime' = [lastUpdateTime EXCEPT ![t] = now]]_vars
    /\ [](Len(activePairs) <= MAX_PAIRS)

\* MAX_PAIRS pools are active, the second added a second after the first,
\* and a fully approved ADD_PAIR of a third token is waiting
C29_Witness ==
    /\ Len(activePairs) = MAX_PAIRS
    /\ activePairs[2] # "LP1"
    /\ lastUpdateTime[activePairs[2]] = 2
    /\ \E id \in 1..actionCounter :
          /\ actions[id].actionType = "ADD_PAIR"
          /\ ~actions[id].executed
          /\ actions[id].approvals >= REQUIRED_APPROVALS
          /\ pairs[actions[id].pairToAdd].lpToken = ZERO

\* C30: executing REMOVE_PAIR on an active pool sets isActive = false and
\* weight = 0, subtracts the former weight from totalWeight, removes exactly
\* that pool from the index (the set of the remaining entries unchanged,
\* their order free) and keeps the pool's record (its lpToken) and every
\* user stake record; on a pool that is not active it fails.
C30_RemovePair ==
    /\ [][\A id \in 1..actionCounter :
             Executes(id, "REMOVE_PAIR") =>
                 LET t == actions[id].pairToRemove
                 IN  /\ pairs[t].isActive
                     /\ pairs' = [pairs EXCEPT ![t] =
                           [lpToken |-> pairs[t].lpToken, weight |-> 0,
                            isActive |-> FALSE]]
                     /\ pairs'[t].lpToken = t
                     /\ totalWeight' = totalWeight - pairs[t].weight
                     /\ Range(activePairs') = Range(activePairs) \ {t}
                     /\ Len(activePairs') = Len(activePairs) - 1
                     /\ userStakes' = userStakes
                     /\ balances' = balances]_vars
    /\ [](\A id \in 1..actionCounter :
             (/\ actions[id].actionType = "REMOVE_PAIR"
              /\ ~pairs[actions[id].pairToRemove].isActive)
                => \A s \in Holders : ~ENABLED executeAction(s, id))

\* LP1 was removed from an index of two while u1 had a stake in it: LP2 is
\* what the index holds, the stake record is still there
C30_Witness ==
    /\ activePairs = <<"LP2">>
    /\ pairs["LP1"] = [lpToken |-> "LP1", weight |-> 0, isActive |-> FALSE]
    /\ userStakes["u1"]["LP1"].amount > 0
    /\ totalWeight = pairs["LP2"].weight

(* ---------------- the retry specification ------------------------------ *)
\* After the fixture the signers propose things that cannot execute yet or
\* cannot both execute: withdrawals of 2 out of a reward balance of 3, a
\* weight batch naming LP2 before LP2 is registered, LP2 twice.  The reward
\* balance can be topped up (Refill).
MaxRetryActions == 4

RtProposeWithdraw ==
    /\ actionCounter < MaxRetryActions
    /\ proposeWithdrawRewards("s1", "u2", 2)

RtProposeWeights ==
    /\ actionCounter < MaxRetryActions
    /\ proposeUpdatePairWeights("s1", <<"LP1", "LP2">>, <<2, 1>>)

RtProposeAdd ==
    /\ actionCounter < MaxRetryActions
    /\ proposeAddPair("s1", "LP2", 1)

RtApprove ==
    \E s \in {"s2", "s3"}, id \in 1..MaxRetryActions : approveAction(s, id)

RtExecute == \E id \in 1..MaxRetryActions : executeAction("s1", id)

NextRetry ==
    \/ Tick
    \/ Refill
    \/ RtProposeWithdraw
    \/ RtProposeWeights
    \/ RtProposeAdd
    \/ RtApprove
    \/ RtExecute

SpecRetry == InitStake /\ [][NextRetry]_vars

(* ======================= claims: failed executions ===================== *)
\* the cause of failure an executeAction of pa would meet in this state
blocked(pa) ==
    \/ pa.approvals < REQUIRED_APPROVALS
    \/ pa.actionType = "UPDATE_PAIR_WEIGHTS"
         /\ \E i \in 1..Len(pa.pairs) : pairs[pa.pairs[i]].lpToken = ZERO
    \/ pa.actionType = "ADD_PAIR"
         /\ (pairs[pa.pairToAdd].lpToken # ZERO \/ Len(activePairs) >= MAX_PAIRS)
    \/ pa.actionType = "WITHDRAW_REWARDS"
         /\ pa.withdrawAmount > balanceOf(balances, RewardToken, THIS)

\* pa is neither executed nor flagged, and inside its window
pendingInWindow(pa) ==
    /\ ~pa.executed
    /\ ~pa.expired
    /\ now <= pa.proposedTime + ACTION_EXPIRY

\* C31: a failed executeAction is all-or-nothing and retryable.  While a
\* cause of failure is present (too few approvals, a pool of the weight
\* batch not registered, duplicate pool, reward balance too low) no
\* executeAction step exists, so nothing - no prefix of a weight batch
\* either - is changed by it; the action keeps its record (only an approval,
\* its execution or its expiry mark ever change it, and approvals only
\* grow); and as soon as no cause is present it can be executed, inside its
\* window.
C31_FailedExecutionRetryable ==
    /\ [](\A id \in 1..actionCounter :
             pendingInWindow(actions[id]) =>
                 (ENABLED executeAction("s1", id) <=> ~blocked(actions[id])))
    /\ [][\A id \in 1..actionCounter :
             \/ actions'[id] = actions[id]
             \/ Executes(id, actions[id].actionType)
                  /\ actions'[id] = [actions[id] EXCEPT !.executed = TRUE]
             \/ /\ ~actions[id].executed
                /\ \/ actions'[id] = [actions[id] EXCEPT !.expired = TRUE]
                   \/ \E s \in admins : actions'[id] = approved(actions[id], s)]_vars
    /\ [][\A id \in 1..actionCounter :
             (~Executes(id, actions[id].actionType)
                 /\ actions[id].actionType = "UPDATE_PAIR_WEIGHTS"
                 /\ ~actions[id].executed
                 /\ \A j \in 1..actionCounter :
                       ~Executes(j, "UPDATE_PAIR_WEIGHTS"))
               => \A t \in Tokens :
                     pairs[t].lpToken # ZERO => pairs'[t].weight = pairs[t].weight]_vars

\* the weight batch naming LP2 was proposed before LP2 was, could not execute
\* until the ADD_PAIR had, and has executed since
C31_Witness ==
    /\ actionCounter = 4
    /\ actions[3].actionType = "UPDATE_PAIR_WEIGHTS"
    /\ actions[4].actionType = "ADD_PAIR"
    /\ actions[3].executed
    /\ actions[4].executed
    /\ pairs["LP1"].weight = 2
    /\ totalWeight = 3

(* ======================= claims: the reward index ====================== *)
\* C32: index monotonicity.  For every pool rewardPerTokenStored never
\* decreases, lastUpdateTime never decreases and never exceeds the current
\* time; for every user rewardPerTokenPaid <= rewardPerTokenStored of the
\* pool, so the subtraction in earned never underflows.
C32_IndexMonotone ==
    /\ [][\A t \in Tokens :
             /\ rewardPerTokenStored'[t] >= rewardPerTokenStored[t]
             /\ lastUpdateTime'[t] >= lastUpdateTime[t]]_vars
    /\ [](\A t \in Tokens :
             /\ lastUpdateTime[t] <= now
             /\ \A u \in Users :
                   userStakes[u][t].rewardPerTokenPaid <= rewardPerTokenStored[t])

\* the index of LP1 has moved twice: u1's snapshot is of the first move,
\* behind the index, which u2 has just synchronized
C32_Witness ==
    /\ userStakes["u1"]["LP1"].amount > 0
    /\ userStakes["u1"]["LP1"].rewardPerTokenPaid > 0
    /\ userStakes["u1"]["LP1"].rewardPerTokenPaid < rewardPerTokenStored["LP1"]
    /\ userStakes["u2"]["LP1"].rewardPerTokenPaid = rewardPerTokenStored["LP1"]
    /\ lastUpdateTime["LP1"] = now

\* C33: empty-pool periods accrue nothing.  A step that finds no stake
\* recorded in a pool leaves the pool's rewardPerTokenStored unchanged; the
\* stake that ends the empty period synchronizes the pool (lastUpdateTime
\* becomes now, no division by zero stops it) and is credited nothing of it.
C33_EmptyPoolAccruesNothing ==
    /\ [][\A t \in Tokens :
             staked(t) = 0 => rewardPerTokenStored'[t] = rewardPerTokenStored[t]]_vars
    /\ [][\A u \in Users, t \in Tokens, a \in StakeAmounts :
             (staked(t) = 0 /\ stake(u, t, a)) =>
                 /\ lastUpdateTime'[t] = now
                 /\ ~earnedReverts(u, t)'
                 /\ earned(u, t)' = 0]_vars
    /\ [](\A u \in Users, t \in Tokens, a \in StakeAmounts :
             (/\ staked(t) = 0
              /\ pairs[t].isActive
              /\ pairs[t].weight > 0
              /\ balanceOf(balances, t, u) >= a) => ENABLED stake(u, t, a))

(* ---------------- the ceiling specification ---------------------------- *)
\* The fixture with stakers who hold more LP tokens than the ceiling of one
\* stake call (an ERC20 balance is a uint256).
LargeFunds == UINT128_MAX + 1
CeilingAmounts == {1, UINT128_MAX}

InitCeiling ==
    /\ now = 1
    /\ admins = Range(InitialSigners)
    /\ signers = InitialSigners
    /\ actionCounter = 2
    /\ actions = FixtureActions
    /\ hourlyRewardRate = 2
    /\ totalWeight = 1
    /\ pairs = [t \in Tokens |->
                  IF t = "LP1"
                  THEN [lpToken |-> "LP1", weight |-> 1, isActive |-> TRUE]
                  ELSE NoPair]
    /\ activePairs = <<"LP1">>
    /\ rewardPerTokenStored = [t \in Tokens |-> 0]
    /\ lastUpdateTime = [t \in Tokens |-> IF t = "LP1" THEN 1 ELSE 0]
    /\ userStakes = [u \in Users |-> [t \in Tokens |-> NoStake]]
    /\ balances = [InitialBalances EXCEPT
                      !["LP1"] = [h \in Holders |->
                                     IF h \in Users THEN LargeFunds ELSE 0]]

CeStake == \E u \in Users, a \in CeilingAmounts : stake(u, "LP1", a)

CeUnstake == \E u \in Users, a \in CeilingAmounts : unstake(u, "LP1", a)

CeClaim == \E u \in Users : claimRewards(u, "LP1")

NextCeiling ==
    \/ Tick
    \/ CeStake
    \/ CeUnstake
    \/ CeClaim

SpecCeiling == InitCeiling /\ [][NextCeiling]_vars

(* ======================= claims: the stake ceiling ===================== *)
\* C34: in every reachable state each userStakes[user][pool].amount is at
\* most the ceiling, also after several stake calls by the same user into
\* the same pool: a stake that would push the recorded amount past the
\* ceiling fails.
C34_StakeCeiling ==
    \A u \in Users, t \in Tokens : userStakes[u][t].amount <= UINT128_MAX

(* ---------------- the emission specification --------------------------- *)
\* After the fixture (rate fixed at time 1 and not changed afterwards) the
\* signers add LP2 as a second pool and remove it again; u1 stakes in LP1,
\* u2 in LP2.  No reward token reaches a user other than as a reward.
MaxEmissionActions == 4

EmProposeAdd ==
    /\ actionCounter < MaxEmissionActions
    /\ proposeAddPair("s1", "LP2", 1)

EmProposeRemove ==
    /\ actionCounter < MaxEmissionActions
    /\ proposeRemovePair("s1", "LP2")

EmApprove ==
    \E s \in {"s2", "s3"}, id \in 1..MaxEmissionActions : approveAction(s, id)

EmExecute == \E id \in 1..MaxEmissionActions : executeAction("s1", id)

EmStake == stake("u1", "LP1", 1) \/ stake("u2", "LP2", 1)

EmUnstake == unstake("u1", "LP1", 1) \/ unstake("u2", "LP2", 1)

EmClaim == claimRewards("u1", "LP1") \/ claimRewards("u2", "LP2")

NextEmission ==
    \/ Tick
    \/ EmProposeAdd
    \/ EmProposeRemove
    \/ EmApprove
    \/ EmExecute
    \/ EmStake
    \/ EmUnstake
    \/ EmClaim

SpecEmission == InitStake /\ [][NextEmission]_vars

(* ======================= claims: the emission bound ==================== *)
\* reward tokens paid out to the stakers so far
paidToStakers ==
    (balanceOf(balances, RewardToken, "u1") - UserFunds)
        + (balanceOf(balances, RewardToken, "u2") - UserFunds)

\* what the view still shows as earned, over all users and pools
owed(u, t) == IF earnedReverts(u, t) THEN 0 ELSE earned(u, t)

outstanding ==
    owed("u1", "LP1") + owed("u1", "LP2") + owed("u2", "LP1") + owed("u2", "LP2")

\* floor(hourlyRewardRate / SECONDS_PER_HOUR) per second since the rate was
\* set, at time 1
emitted == (hourlyRewardRate \div SECONDS_PER_HOUR) * (now - 1)

\* C35: emission bound.  The reward tokens paid to stakers by claimRewards
\* and unstake plus the earned amounts still outstanding never exceed the
\* emission of the elapsed time, floor(hourlyRewardRate / SECONDS_PER_HOUR)
\* per second, whatever the interleaving of stakes, claims and pool changes.
C35_EmissionBound == paidToStakers + outstanding <= emitted

(* ======================= claims: current approvals ===================== *)
\* C36: whenever executeAction succeeds, at least REQUIRED_APPROVALS of the
\* principals in the action's approvedBy hold ADMIN_ROLE at that moment: the
\* approval of a signer replaced since does not count, so a seat never
\* contributes two approvals (old holder and replacement) to one action.
C36_ApprovalsCurrent ==
    [][\A id \in 1..actionCounter :
          (~actions[id].executed /\ actions'[id].executed) =>
              Cardinality({a \in Range(actions[id].approvedBy) : a \in admins})
                  >= REQUIRED_APPROVALS]_vars

(* ======================= claims: no back-dated rewards ================= *)
\* what a position of amount a with this snapshot has accrued, nothing
\* pending, at the pool's current index
accruedBy(a, paid, t) ==
    (a * (currentRewardPerToken(t, rewardPerTokenStored[t], lastUpdateTime[t])
            - paid)) \div PRECISION

\* C37: no back-dated rewards.  Right after a user's first stake into a
\* pool (amount was 0, nothing pending) earned(user, pool) is 0 whatever the
\* index; a stake on top of an existing one leaves earned at what the old
\* amount had earned up to then; and from a snapshot on a position of a + b
\* accrues what positions of a and of b accrue, up to rounding (at most 1
\* more).
C37_NoBackDatedRewards ==
    /\ [][\A u \in Users, t \in Tokens, a \in StakeAmounts :
             stake(u, t, a) =>
                 /\ ~earnedReverts(u, t)'
                 /\ earned(u, t)'
                      = IF userStakes[u][t].amount = 0 THEN 0
                        ELSE earnedAfterUpdate(u, t)
                 /\ userStakes[u][t].amount = 0
                      => userStakes[u][t].pendingRewards = 0]_vars
    /\ [](\A u \in Users, t \in Tokens :
             ~earnedReverts(u, t) =>
                 \A b \in 1..(userStakes[u][t].amount - 1) :
                     LET whole == accruedBy(userStakes[u][t].amount,
                                            userStakes[u][t].rewardPerTokenPaid, t)
                         parts == accruedBy(userStakes[u][t].amount - b,
                                            userStakes[u][t].rewardPerTokenPaid, t)
                                  + accruedBy(b,
                                              userStakes[u][t].rewardPerTokenPaid, t)
                     IN  /\ earned(u, t) = whole + userStakes[u][t].pendingRewards
                         /\ parts <= whole
                         /\ whole <= parts + 1)

\* u1 has staked on top of a stake that had earned 1; u2 has then staked for
\* the first time, at an index above 0, and has earned nothing
C37_Witness ==
    /\ userStakes["u1"]["LP1"].amount = 2
    /\ userStakes["u1"]["LP1"].pendingRewards > 0
    /\ rewardPerTokenStored["LP1"] > 0
    /\ userStakes["u2"]["LP1"]
          = [amount |-> 1, pendingRewards |-> 0,
             rewardPerTokenPaid |-> rewardPerTokenStored["LP1"]]
    /\ lastUpdateTime["LP1"] = now
    /\ earned("u2", "LP1") = 0
    /\ balanceOf(balances, RewardToken, "u2") = UserFunds

(* ======================= claims: staked tokens can be withdrawn ======== *)
\* C38: staked LP tokens are never permanently locked.  In every reachable
\* state a user with amount > 0 recorded in a pool can get LP tokens back
\* by a call of their own - some unstake of that pool succeeds - also after
\* the pool was deactivated by REMOVE_PAIR and after all weights were set
\* to 0.  (Of the user's own calls only unstake returns LP tokens, and in
\* the states of this specification none of them changes what stops it.)
C38_StakeNeverLocked ==
    \A u \in Users, t \in Tokens :
        userStakes[u][t].amount > 0 =>
            \E a \in 1..userStakes[u][t].amount : ENABLED unstake(u, t, a)

\* why the lock is permanent: a deactivated pool stays deactivated, and
\* while it is, stake, unstake and claimRewards of it all fail
C38_RemovedPoolLocksStake ==
    /\ [](\A u \in Users, t \in Tokens :
             (pairs[t].lpToken # ZERO /\ ~pairs[t].isActive) =>
                 /\ \A a \in 0..UserFunds :
                       ~ENABLED unstake(u, t, a) /\ ~ENABLED stake(u, t, a)
                 /\ ~ENABLED claimRewards(u, t))
    /\ [][\A t \in Tokens :
             (pairs[t].lpToken # ZERO /\ ~pairs[t].isActive)
                => ~pairs'[t].isActive]_vars

(* ======================= claims: the active-pool index ================= *)
\* what of C39 does not concern the weight of deactivated pools
IndexConsistent ==
    /\ [](/\ Len(activePairs) = Cardinality(Range(activePairs))
          /\ \A t \in Tokens : t \in Range(activePairs) <=> pairs[t].isActive)
    /\ [][\A t \in Tokens :
             (pairs[t].lpToken # ZERO /\ ~pairs[t].isActive)
                => ~pairs'[t].isActive]_vars

\* C39: in every reachable state activePairs contains no duplicate, a pool
\* is in activePairs if and only if its isActive flag is true, every pool
\* with isActive = false has weight 0, and a pool that has been deactivated
\* never becomes active again.
C39_ActiveIndexConsistent ==
    /\ IndexConsistent
    /\ [](\A t \in Tokens : ~pairs[t].isActive => pairs[t].weight = 0)

\* the three other parts hold
C39_IndexConsistentButForWeights == IndexConsistent

(* ======================= claims: staked tokens and the administrators == *)
\* whenever the contract's balance of token t goes down, the step is an
\* unstake of that pool by a user and the balance goes down by the amount
\* unstaked
onlyUnstakeLowers(t) ==
    balanceOf(balances, t, THIS)' < balanceOf(balances, t, THIS) =>
        \E u \in Users, a \in StakeAmounts :
            /\ unstake(u, t, a)
            /\ balanceOf(balances, t, THIS)' = balanceOf(balances, t, THIS) - a

\* C40: staked LP tokens are out of the administrators' reach.  No executed
\* action and no reward payout to another user ever reduces the contract's
\* balance of a registered pool's token: that balance goes down only by a
\* user's own unstake and only by the amount unstaked - also when the token
\* registered as a pool is the reward token.
C40_StakedTokensOutOfReach ==
    [][\A t \in Tokens : pairs[t].lpToken # ZERO => onlyUnstakeLowers(t)]_vars

\* the same for the pools whose token is not the reward token
C40_OtherTokensOutOfReach ==
    [][\A t \in Tokens \ {RewardToken} :
          pairs[t].lpToken # ZERO => onlyUnstakeLowers(t)]_vars

====
